---- MODULE Spec2Model ----
(***************************************************************************)
(* A model of the symbolic path-signature engine of fsm-extractor:         *)
(* the state graph (fsm/function_block.rs), the guard tokeniser, the       *)
(* expression parser, the DNF normaliser, the path enumerator, the         *)
(* signature composer and the matcher (analysis/signatures.rs).            *)
(*                                                                         *)
(* Text is a sequence of one-character strings.  Rust's String is a byte   *)
(* string: ByteLen gives every character its UTF-8 width, and the          *)
(* tokeniser's `position` is a byte offset exactly as in the source.       *)
(* Option<T> is a sequence of length at most one: None is <<>>, Some(x)    *)
(* is <<x>>.  A HashMap is a function; where the source iterates a         *)
(* HashMap the model takes every order of its keys.                        *)
(***************************************************************************)
EXTENDS Integers, Sequences, FiniteSets, TLC

VARIABLES
  fsm,            \* the FunctionBlock: [states, transitions]
  paths,          \* Option of the last PathFinder::find_all_paths result
  table,          \* Option of the last SignatureGenerator::generate result
  prev_table,     \* Option of the table of the run before the last one
  condition_str,  \* the guard text handed to parse_transition_condition
  parsed,         \* Option of the outcome of parse_transition_condition
  conjunction,    \* a conjunction of Conditions handed to format_conditions
  formatted,      \* Option of its formatted text
  runtime_vars,   \* the runtime assignment handed to the matcher
  matched,        \* Option of the last verify_state call: [state_id, result]
  tokenized,      \* Option of the outcome of Tokenizer::tokenize on the guard
  atomic_cond,    \* Option of the outcome of parse_atomic_condition_str
  parser,         \* Option of the ExpressionParser after parse(): [expr, position]
  bool_expr,      \* Option of a BooleanExpr handed to to_dnf
  normal_form,    \* Option of its DNF
  finder,         \* Option of the PathFinder::find_all_paths call under way
  unreachable     \* Option of the last FsmValidator::find_unreachable_states result

\* the variables of the stages that are run on their own
stage_vars ==
  <<tokenized, atomic_cond, parser, bool_expr, normal_form, finder, unreachable>>

vars == <<fsm, paths, table, prev_table, condition_str, parsed,
          conjunction, formatted, runtime_vars, matched, stage_vars>>

None == <<>>
Some(x) == <<x>>

-----------------------------------------------------------------------------
(* Characters and strings                                                  *)

Digits == <<"0", "1", "2", "3", "4", "5", "6", "7", "8", "9">>
Uppers == <<"A", "B", "C", "D", "E", "F", "G", "H", "I", "J", "K", "L", "M",
            "N", "O", "P", "Q", "R", "S", "T", "U", "V", "W", "X", "Y", "Z">>
Lowers == <<"a", "b", "c", "d", "e", "f", "g", "h", "i", "j", "k", "l", "m",
            "n", "o", "p", "q", "r", "s", "t", "u", "v", "w", "x", "y", "z">>

Range(s) == {s[i] : i \in 1..Len(s)}

\* The one character of the model that is wider than one byte (U+00E9).
NonAscii == {"é"}

IndexOf(s, c) == CHOOSE i \in 1..Len(s) : s[i] = c

\* The code point of a character; String::cmp compares UTF-8 bytes, which
\* orders strings as their code points do.
CodePoint(c) ==
  CASE c \in Range(Digits) -> 47 + IndexOf(Digits, c)
    [] c \in Range(Uppers) -> 64 + IndexOf(Uppers, c)
    [] c \in Range(Lowers) -> 96 + IndexOf(Lowers, c)
    [] c = " " -> 32
    [] c = "(" -> 40
    [] c = ")" -> 41
    [] c = "+" -> 43
    [] c = "-" -> 45
    [] c = "." -> 46
    [] c = "<" -> 60
    [] c = "=" -> 61
    [] c = ">" -> 62
    [] c = "[" -> 91
    [] c = "]" -> 93
    [] c = "_" -> 95
    [] c \in NonAscii -> 233

\* char::len_utf8
ByteLen(c) == IF c \in NonAscii THEN 2 ELSE 1

\* char::is_whitespace, char::is_alphanumeric
is_whitespace(c) == c = " "
is_alphanumeric(c) ==
  c \in Range(Digits) \cup Range(Uppers) \cup Range(Lowers) \cup NonAscii

RECURSIVE StrLess(_, _)
\* a < b in the order of String::cmp (lexicographic)
StrLess(a, b) ==
  IF b = <<>> THEN FALSE
  ELSE IF a = <<>> THEN TRUE
  ELSE IF Head(a) # Head(b) THEN CodePoint(Head(a)) < CodePoint(Head(b))
  ELSE StrLess(Tail(a), Tail(b))

\* the Ordering of a.cmp(b): -1, 0 or 1
StrCmp(a, b) == IF a = b THEN 0 ELSE IF StrLess(a, b) THEN -1 ELSE 1

-----------------------------------------------------------------------------
(* The state graph: fsm/state.rs, fsm/transition.rs, fsm/function_block.rs *)

\* State::new
NewState(id) == [id |-> id, transitions_out |-> <<>>, transitions_in |-> <<>>]

\* Transition::new; the id is format!("{}_to_{}", from, to)
NewTransition(from, to, condition) ==
  [id |-> <<from, "_to_", to>>, from_state |-> from, to_state |-> to,
   condition |-> condition]

\* FunctionBlock::new
NewFunctionBlock == [states |-> <<>>, transitions |-> <<>>]

\* the keys of the IndexMap `states`, in insertion order
StateKeys(f) == [i \in 1..Len(f.states) |-> f.states[i].id]
contains_key(f, id) == \E i \in 1..Len(f.states) : f.states[i].id = id

\* FunctionBlock::add_state: IndexMap::insert replaces the value of a key
\* that is present (keeping its place) and appends a new key otherwise.
add_state(f, state) ==
  IF contains_key(f, state.id)
  THEN [f EXCEPT !.states =
          [i \in 1..Len(f.states) |->
             IF f.states[i].id = state.id THEN state ELSE f.states[i]]]
  ELSE [f EXCEPT !.states = Append(f.states, state)]

\* add_transition pushing the transition without touching the states
add_transition_unindexed(f, transition) ==
  [states |-> f.states, transitions |-> Append(f.transitions, transition)]

\* FunctionBlock::add_transition
add_transition(f, transition) ==
  LET out == [i \in 1..Len(f.states) |->
                IF f.states[i].id = transition.from_state
                THEN [f.states[i] EXCEPT
                        !.transitions_out = Append(@, transition.id)]
                ELSE f.states[i]]
      in == [i \in 1..Len(out) |->
               IF out[i].id = transition.to_state
               THEN [out[i] EXCEPT !.transitions_in = Append(@, transition.id)]
               ELSE out[i]]
  IN [states |-> in, transitions |-> Append(f.transitions, transition)]

-----------------------------------------------------------------------------
(* The path enumerator: PathFinder                                         *)

\* paths_to_states.entry(state).or_insert_with(Vec::new).push(path)
PushPath(paths_to_states, state, path) ==
  IF state \in DOMAIN paths_to_states
  THEN [paths_to_states EXCEPT ![state] = Append(@, path)]
  ELSE paths_to_states @@ (state :> <<path>>)

\* PathFinder::find_initial_states
find_initial_states(f) ==
  SelectSeq(StateKeys(f),
            LAMBDA id : \E i \in 1..Len(f.states) :
               f.states[i].id = id /\ f.states[i].transitions_in = <<>>)

\* find_fallback_initial_state looking for "10" before "100"
find_fallback_prefers_10(f) ==
  IF contains_key(f, "10") THEN <<"10">>
  ELSE IF contains_key(f, "100") THEN <<"100">>
  ELSE IF Len(f.states) > 0 THEN <<f.states[1].id>>
  ELSE <<>>

\* PathFinder::find_fallback_initial_state
find_fallback_initial_state(f) ==
  IF contains_key(f, "100") THEN <<"100">>
  ELSE IF contains_key(f, "10") THEN <<"10">>
  ELSE IF Len(f.states) > 0 THEN <<f.states[1].id>>
  ELSE <<>>

RECURSIVE dfs(_, _, _, _, _), dfs_transitions(_, _, _, _, _, _)
\* dfs as it would be if the state the traversal starts from were not
\* put into `visited`
dfs_root_unmarked(f, current_state, visited, current_path, paths_to_states) ==
  LET r == dfs_transitions(f, current_state, 0,
                           IF Len(current_path) > 1
                           THEN visited \cup {current_state} ELSE visited,
                           current_path,
                           PushPath(paths_to_states, current_state, current_path))
  IN [visited |-> r.visited \ {current_state},
      current_path |-> r.current_path,
      paths_to_states |-> r.paths_to_states]

\* dfs as it would be without `visited.remove(current_state)`
dfs_never_unmarks(f, current_state, visited, current_path, paths_to_states) ==
  LET r == dfs_transitions(f, current_state, 0,
                           visited \cup {current_state}, current_path,
                           PushPath(paths_to_states, current_state, current_path))
  IN [visited |-> r.visited,
      current_path |-> r.current_path,
      paths_to_states |-> r.paths_to_states]

\* PathFinder::dfs.  The three &mut arguments are returned as a record.
\* A path element is [state, transition]: transition is None for the first
\* element and Some(trans_idx), trans_idx counted from 0, for the others.
dfs(f, current_state, visited, current_path, paths_to_states) ==
  LET r == dfs_transitions(f, current_state, 0,
                           visited \cup {current_state}, current_path,
                           PushPath(paths_to_states, current_state, current_path))
  IN [visited |-> r.visited \ {current_state},
      current_path |-> r.current_path,
      paths_to_states |-> r.paths_to_states]

\* the loop of dfs leaving the state by the first transition it can take
\* and by no other
dfs_transitions_takes_first(f, current_state, trans_idx, visited, current_path, paths_to_states) ==
  IF trans_idx >= Len(f.transitions)
  THEN [visited |-> visited, current_path |-> current_path,
        paths_to_states |-> paths_to_states]
  ELSE LET transition == f.transitions[trans_idx + 1]
           next_state == transition.to_state
       IN IF transition.from_state = current_state /\ next_state \notin visited
          THEN LET r == dfs(f, next_state, visited,
                            Append(current_path,
                                   [state |-> next_state, transition |-> Some(trans_idx)]),
                            paths_to_states)
               IN [visited |-> r.visited,
                   current_path |-> SubSeq(r.current_path, 1, Len(r.current_path) - 1),
                   paths_to_states |-> r.paths_to_states]
          ELSE dfs_transitions(f, current_state, trans_idx + 1, visited,
                               current_path, paths_to_states)

\* the `for (trans_idx, transition) in fsm.transitions.iter().enumerate()`
\* loop of dfs, from trans_idx on
dfs_transitions(f, current_state, trans_idx, visited, current_path, paths_to_states) ==
  IF trans_idx >= Len(f.transitions)
  THEN [visited |-> visited, current_path |-> current_path,
        paths_to_states |-> paths_to_states]
  ELSE LET transition == f.transitions[trans_idx + 1]
           next_state == transition.to_state
       IN IF transition.from_state = current_state /\ next_state \notin visited
          THEN LET r == dfs(f, next_state, visited,
                            Append(current_path,
                                   [state |-> next_state, transition |-> Some(trans_idx)]),
                            paths_to_states)
               IN dfs_transitions(f, current_state, trans_idx + 1, r.visited,
                                  SubSeq(r.current_path, 1, Len(r.current_path) - 1),
                                  r.paths_to_states)
          ELSE dfs_transitions(f, current_state, trans_idx + 1, visited,
                               current_path, paths_to_states)

\* the states the traversal starts from
starting_states(f) ==
  IF find_initial_states(f) = <<>> THEN find_fallback_initial_state(f)
  ELSE find_initial_states(f)

RECURSIVE find_all_paths_from(_, _, _, _)
\* the `for initial in starting_states` loop of find_all_paths, from i on
find_all_paths_from(f, starting, i, paths_to_states) ==
  IF i > Len(starting) THEN paths_to_states
  ELSE find_all_paths_from(f, starting, i + 1,
         dfs(f, starting[i], {},
             <<[state |-> starting[i], transition |-> None]>>,
             paths_to_states).paths_to_states)

\* PathFinder::find_all_paths
find_all_paths(f) == find_all_paths_from(f, starting_states(f), 1, <<>>)

-----------------------------------------------------------------------------
(* Byte offsets into a string                                              *)

\* the positions of the characters of s that take two bytes
Wide(s) == {i \in 1..Len(s) : ByteLen(s[i]) = 2}

\* the byte offset at which character k (counted from 1) starts: one byte
\* for every character before it and one more for every wider one
ByteOffset(s, k) == (k - 1) + Cardinality({i \in Wide(s) : i < k})

\* str::len: the length in bytes
len(s) == ByteOffset(s, Len(s) + 1)

\* str::is_char_boundary
is_char_boundary(s, b) ==
  /\ b \in 0..len(s)
  /\ \A i \in Wide(s) : ByteOffset(s, i) + 1 # b

\* the character (counted from 1) that starts at the character boundary b
CharAt(s, b) == b + 1 - Cardinality({i \in Wide(s) : ByteOffset(s, i) < b})

\* &s[from..to] for byte offsets from <= to that are character boundaries
Slice(s, from, to) == SubSeq(s, CharAt(s, from), CharAt(s, to) - 1)

\* &s[from..to] panics unless both offsets are character boundaries
SlicePanics(s, from, to) ==
  from > to \/ ~is_char_boundary(s, from) \/ ~is_char_boundary(s, to)

\* the value of unwrap_or('\0')
NUL == "NUL"

\* s.chars().nth(n).unwrap_or('\0'): n counts characters, not bytes
chars_nth(s, n) == IF n < Len(s) THEN s[n + 1] ELSE NUL

RECURSIVE trim_start(_), trim_end(_)
trim_start(s) ==
  IF s # <<>> /\ is_whitespace(Head(s)) THEN trim_start(Tail(s)) ELSE s
trim_end(s) ==
  IF s # <<>> /\ is_whitespace(s[Len(s)])
  THEN trim_end(SubSeq(s, 1, Len(s) - 1)) ELSE s
\* str::trim
trim(s) == trim_end(trim_start(s))

starts_with(s, c) == s # <<>> /\ s[1] = c
ends_with(s, c) == s # <<>> /\ s[Len(s)] = c

\* str::find: Some(byte offset of the first occurrence of pat), or None
find(s, pat) ==
  LET hits == {k \in 1..(Len(s) - Len(pat) + 1) :
                 SubSeq(s, k, k + Len(pat) - 1) = pat}
  IN IF hits = {} THEN None
     ELSE Some(ByteOffset(s, CHOOSE k \in hits : \A j \in hits : k <= j))

-----------------------------------------------------------------------------
(* The tokeniser: Tokenizer                                                *)

KwAND == <<"A", "N", "D">>
KwOR == <<"O", "R">>
KwNOT == <<"N", "O", "T">>

TokCondition(text) == [kind |-> "Condition", text |-> text]
TokAnd == [kind |-> "And", text |-> <<>>]
TokOr == [kind |-> "Or", text |-> <<>>]
TokNot == [kind |-> "Not", text |-> <<>>]
TokLParen == [kind |-> "LParen", text |-> <<>>]
TokRParen == [kind |-> "RParen", text |-> <<>>]

\* Tokenizer::current_char
current_char(input, position) == chars_nth(input, position)

RECURSIVE skip_whitespace(_, _)
\* Tokenizer::skip_whitespace: the position it leaves
skip_whitespace(input, position) ==
  IF position < len(input) /\ is_whitespace(current_char(input, position))
  THEN skip_whitespace(input, position + 1)
  ELSE position

\* Tokenizer::check_keyword: "true", "false", or "panic" when the slice
\* input[position..position + keyword.len()] is not on character boundaries
check_keyword(input, position, keyword) ==
  LET next_pos == position + len(keyword) IN
  IF next_pos > len(input) THEN "false"
  ELSE IF SlicePanics(input, position, next_pos) THEN "panic"
  ELSE IF Slice(input, position, next_pos) # keyword THEN "false"
  ELSE IF next_pos < len(input)
          /\ (is_alphanumeric(chars_nth(input, next_pos))
              \/ chars_nth(input, next_pos) = "_")
       THEN "false"
  ELSE "true"

RECURSIVE scan_atomic_condition(_, _, _)
\* the while loop of Tokenizer::parse_atomic_condition: the position at
\* which it stops, or a panic of check_keyword
scan_atomic_condition(input, position, paren_depth) ==
  IF position >= len(input) THEN [panic |-> FALSE, position |-> position]
  ELSE LET ch == current_char(input, position) IN
    IF ch = "(" THEN scan_atomic_condition(input, position + 1, paren_depth + 1)
    ELSE IF ch = ")"
    THEN IF paren_depth > 0
         THEN scan_atomic_condition(input, position + 1, paren_depth - 1)
         ELSE [panic |-> FALSE, position |-> position]
    ELSE IF paren_depth = 0
    THEN LET isAnd == check_keyword(input, position, KwAND) IN
         IF isAnd = "panic" THEN [panic |-> TRUE, position |-> position]
         ELSE IF isAnd = "true" THEN [panic |-> FALSE, position |-> position]
         ELSE LET isOr == check_keyword(input, position, KwOR) IN
              IF isOr = "panic" THEN [panic |-> TRUE, position |-> position]
              ELSE IF isOr = "true" THEN [panic |-> FALSE, position |-> position]
              ELSE scan_atomic_condition(input, position + 1, paren_depth)
    ELSE scan_atomic_condition(input, position + 1, paren_depth)

\* Tokenizer::parse_atomic_condition after its while loop stopped at
\* scan.position: the trimmed slice from `start`, None when it is empty
extract_atomic(input, start, scan) ==
  IF scan.panic THEN [panic |-> TRUE, position |-> scan.position, condition |-> None]
  ELSE IF scan.position > start
  THEN IF SlicePanics(input, start, scan.position)
       THEN [panic |-> TRUE, position |-> scan.position, condition |-> None]
       ELSE LET condition == trim(Slice(input, start, scan.position)) IN
            [panic |-> FALSE, position |-> scan.position,
             condition |-> IF condition # <<>> THEN Some(condition) ELSE None]
  ELSE [panic |-> FALSE, position |-> scan.position, condition |-> None]

\* Tokenizer::parse_atomic_condition from `start`:
\* [panic, position, condition: Option<String>]
parse_atomic_condition(input, start) ==
  extract_atomic(input, start, scan_atomic_condition(input, start, 0))

RECURSIVE tokenize_from(_, _, _), push_atomic(_, _, _)
\* the while loop of Tokenizer::tokenize: [panic, tokens]
tokenize_from(input, position0, tokens) ==
  IF position0 >= len(input) THEN [panic |-> FALSE, tokens |-> tokens]
  ELSE LET position == skip_whitespace(input, position0) IN
    IF position >= len(input) THEN [panic |-> FALSE, tokens |-> tokens]
    ELSE LET isAnd == check_keyword(input, position, KwAND) IN
      IF isAnd = "panic" THEN [panic |-> TRUE, tokens |-> tokens]
      ELSE IF isAnd = "true"
      THEN tokenize_from(input, position + 3, Append(tokens, TokAnd))
      ELSE LET isOr == check_keyword(input, position, KwOR) IN
        IF isOr = "panic" THEN [panic |-> TRUE, tokens |-> tokens]
        ELSE IF isOr = "true"
        THEN tokenize_from(input, position + 2, Append(tokens, TokOr))
        ELSE LET isNot == check_keyword(input, position, KwNOT) IN
          IF isNot = "panic" THEN [panic |-> TRUE, tokens |-> tokens]
          ELSE IF isNot = "true"
          THEN tokenize_from(input, position + 3, Append(tokens, TokNot))
          ELSE IF current_char(input, position) = "("
          THEN tokenize_from(input, position + 1, Append(tokens, TokLParen))
          ELSE IF current_char(input, position) = ")"
          THEN tokenize_from(input, position + 1, Append(tokens, TokRParen))
          ELSE push_atomic(input, tokens, parse_atomic_condition(input, position))

\* the last arm of the loop of Tokenizer::tokenize: the condition that
\* parse_atomic_condition returned is pushed, or one character is skipped
push_atomic(input, tokens, atom) ==
  IF atom.panic THEN [panic |-> TRUE, tokens |-> tokens]
  ELSE IF atom.condition # None
  THEN tokenize_from(input, atom.position,
                     Append(tokens, TokCondition(atom.condition[1])))
  ELSE tokenize_from(input, atom.position + 1, tokens)

\* Tokenizer::new(input).tokenize()
tokenize(input) == tokenize_from(input, 0, <<>>)

-----------------------------------------------------------------------------
(* The atomic parser and the expression parser                             *)

\* Condition::new
Condition(variable, operator, value) ==
  [variable |-> variable, operator |-> operator, value |-> value]

OpEq == <<"=">>
OpNe == <<"<", ">">>
OpLt == <<"<">>
OpLe == <<"<", "=">>
OpGt == <<">">>
OpGe == <<">", "=">>

\* the `operators` vector with the one-character operators first
operators_shortest_first == <<OpEq, OpLt, OpGt, OpLe, OpGe, OpNe>>

\* the `operators` vector of parse_atomic_condition_str, in its order
operators == <<OpLe, OpGe, OpNe, OpEq, OpLt, OpGt>>

\* expr with one leading "(" and one trailing ")" cut off when it starts
\* with "(" and ends with ")"
StripParens(expr) ==
  IF starts_with(expr, "(") /\ ends_with(expr, ")")
  THEN Slice(expr, 1, len(expr) - 1)
  ELSE expr

RECURSIVE parse_with_operators(_, _)
\* the `for (op_str, op_name) in operators` loop of
\* parse_atomic_condition_str, from operator i on
parse_with_operators(expr, i) ==
  IF i > Len(operators) THEN None
  ELSE LET op_str == operators[i]
           pos == find(expr, op_str)
       IN IF pos # None
          THEN LET variable == trim(Slice(expr, 0, pos[1]))
                   value == trim(Slice(expr, pos[1] + len(op_str), len(expr)))
               IN Some(Condition(variable, op_str,
                        IF starts_with(value, "(") /\ ends_with(value, ")")
                        THEN trim(Slice(value, 1, len(value) - 1))
                        ELSE value))
          ELSE parse_with_operators(expr, i + 1)

\* parse_atomic_condition_str: Option<Condition>
parse_atomic_condition_str(expr) ==
  parse_with_operators(StripParens(trim(expr)), 1)

\* BooleanExpr
Atomic(cond) == [kind |-> "Atomic", cond |-> cond]
And(left, right) == [kind |-> "And", left |-> left, right |-> right]
Or(left, right) == [kind |-> "Or", left |-> left, right |-> right]
Not(inner) == [kind |-> "Not", inner |-> inner]

RECURSIVE ExpressionParser(_, _, _, _)
\* The methods of ExpressionParser over `tokens`, one case per method; each
\* returns [expr: Option<BooleanExpr>, position], the position being the
\* parser's `self.position` when the method returns.  `left` is the local
\* `left` of the while loops of parse_or and parse_and (the cases
\* "parse_or_loop" and "parse_and_loop") and is unused elsewhere.
ExpressionParser(method, tokens, position, left) ==
  CASE method = "parse_or" ->
         LET first == ExpressionParser("parse_and", tokens, position, <<>>) IN
         IF first.expr = None THEN first
         ELSE ExpressionParser("parse_or_loop", tokens, first.position, first.expr[1])
    [] method = "parse_or_loop" ->
         IF position < Len(tokens) /\ tokens[position + 1].kind = "Or"
         THEN LET right == ExpressionParser("parse_and", tokens, position + 1, <<>>) IN
              IF right.expr = None THEN right
              ELSE ExpressionParser("parse_or_loop", tokens, right.position,
                                    Or(left, right.expr[1]))
         ELSE [expr |-> Some(left), position |-> position]
    [] method = "parse_and" ->
         LET first == ExpressionParser("parse_not", tokens, position, <<>>) IN
         IF first.expr = None THEN first
         ELSE ExpressionParser("parse_and_loop", tokens, first.position, first.expr[1])
    [] method = "parse_and_loop" ->
         IF position < Len(tokens) /\ tokens[position + 1].kind = "And"
         THEN LET right == ExpressionParser("parse_not", tokens, position + 1, <<>>) IN
              IF right.expr = None THEN right
              ELSE ExpressionParser("parse_and_loop", tokens, right.position,
                                    And(left, right.expr[1]))
         ELSE [expr |-> Some(left), position |-> position]
    [] method = "parse_not" ->
         IF position < Len(tokens) /\ tokens[position + 1].kind = "Not"
         THEN LET inner == ExpressionParser("parse_primary", tokens, position + 1, <<>>) IN
              IF inner.expr = None THEN inner
              ELSE [expr |-> Some(Not(inner.expr[1])), position |-> inner.position]
         ELSE ExpressionParser("parse_primary", tokens, position, <<>>)
    [] method = "parse_primary" ->
         IF position >= Len(tokens) THEN [expr |-> None, position |-> position]
         ELSE IF tokens[position + 1].kind = "LParen"
         THEN LET inner == ExpressionParser("parse_or", tokens, position + 1, <<>>) IN
              IF inner.expr = None THEN inner
              ELSE IF inner.position < Len(tokens)
                      /\ tokens[inner.position + 1].kind = "RParen"
                   THEN [expr |-> inner.expr, position |-> inner.position + 1]
                   ELSE inner
         ELSE IF tokens[position + 1].kind = "Condition"
         THEN LET cond == parse_atomic_condition_str(tokens[position + 1].text) IN
              [expr |-> IF cond = None THEN None ELSE Some(Atomic(cond[1])),
               position |-> position + 1]
         ELSE [expr |-> None, position |-> position]

\* ExpressionParser::parse_or, parse_and, parse_not, parse_primary
parse_or(tokens, position) == ExpressionParser("parse_or", tokens, position, <<>>)
parse_and(tokens, position) == ExpressionParser("parse_and", tokens, position, <<>>)
parse_not(tokens, position) == ExpressionParser("parse_not", tokens, position, <<>>)
parse_primary(tokens, position) ==
  ExpressionParser("parse_primary", tokens, position, <<>>)

\* the parse started below OR
parse_from_and(tokens) == parse_and(tokens, 0)

\* ExpressionParser::new(tokens).parse()
parse(tokens) == parse_or(tokens, 0)

-----------------------------------------------------------------------------
(* The DNF normaliser: BooleanExpr::to_dnf                                 *)

\* negate_condition turning a comparison round (< into >) where it should
\* take its complement (< into >=)
negate_condition_mirror(cond) ==
  Condition(cond.variable,
            CASE cond.operator = OpEq -> OpNe
              [] cond.operator = OpNe -> OpEq
              [] cond.operator = OpLt -> OpGt
              [] cond.operator = OpLe -> OpGe
              [] cond.operator = OpGt -> OpLt
              [] cond.operator = OpGe -> OpLe
              [] OTHER -> OpEq,
            cond.value)

\* BooleanExpr::negate_condition
negate_condition(cond) ==
  Condition(cond.variable,
            CASE cond.operator = OpEq -> OpNe
              [] cond.operator = OpNe -> OpEq
              [] cond.operator = OpLt -> OpGe
              [] cond.operator = OpLe -> OpGt
              [] cond.operator = OpGt -> OpLe
              [] cond.operator = OpGe -> OpLt
              [] OTHER -> OpEq,
            cond.value)

RECURSIVE Flatten(_)
Flatten(seqs) == IF seqs = <<>> THEN <<>> ELSE Head(seqs) \o Flatten(Tail(seqs))

\* for left_term in left { for right_term in right { push(left ++ right) } }
CrossTerms(left_dnf, right_dnf) ==
  Flatten([i \in 1..Len(left_dnf) |->
             [j \in 1..Len(right_dnf) |-> left_dnf[i] \o right_dnf[j]]])

RECURSIVE to_dnf(_)
\* to_dnf combining the sides of an Or as it combines those of an And
to_dnf_or_as_and(e) ==
  CASE e.kind = "Atomic" -> <<<<e.cond>>>>
    [] e.kind = "And" -> CrossTerms(to_dnf(e.left), to_dnf(e.right))
    [] e.kind = "Or" -> CrossTerms(to_dnf(e.left), to_dnf(e.right))
    [] e.kind = "Not" ->
         CASE e.inner.kind = "Atomic" -> <<<<negate_condition(e.inner.cond)>>>>
           [] e.inner.kind = "And" ->
                to_dnf(Or(Not(e.inner.left), Not(e.inner.right)))
           [] e.inner.kind = "Or" ->
                to_dnf(And(Not(e.inner.left), Not(e.inner.right)))
           [] e.inner.kind = "Not" -> to_dnf(e.inner.inner)

\* BooleanExpr::to_dnf: a sequence of conjunctions, each a sequence of
\* Conditions
to_dnf(e) ==
  CASE e.kind = "Atomic" -> <<<<e.cond>>>>
    [] e.kind = "And" -> CrossTerms(to_dnf(e.left), to_dnf(e.right))
    [] e.kind = "Or" -> to_dnf(e.left) \o to_dnf(e.right)
    [] e.kind = "Not" ->
         CASE e.inner.kind = "Atomic" -> <<<<negate_condition(e.inner.cond)>>>>
           [] e.inner.kind = "And" ->
                to_dnf(Or(Not(e.inner.left), Not(e.inner.right)))
           [] e.inner.kind = "Or" ->
                to_dnf(And(Not(e.inner.left), Not(e.inner.right)))
           [] e.inner.kind = "Not" -> to_dnf(e.inner.inner)

-----------------------------------------------------------------------------
(* The signature composer: SignatureGenerator                              *)

RECURSIVE Dedup(_, _)
\* the `seen.insert(key)` loop: keeps the first occurrence of every
\* (variable, operator, value) triple, in order
Dedup(conditions, seen) ==
  IF conditions = <<>> THEN <<>>
  ELSE IF Head(conditions) \in seen THEN Dedup(Tail(conditions), seen)
  ELSE <<Head(conditions)>> \o Dedup(Tail(conditions), seen \cup {Head(conditions)})

NoCheck == <<"N", "o", " ", "C", "h", "e", "c", "k">>
AndSeparator == <<" ", "A", "N", "D", " ">>

RECURSIVE split(_, _)
\* str::split(sep): the pieces between the non-overlapping occurrences of
\* sep, found from the left
split(s, sep) ==
  LET pos == find(s, sep) IN
  IF pos = None THEN <<s>>
  ELSE <<Slice(s, 0, pos[1])>> \o split(Slice(s, pos[1] + len(sep), len(s)), sep)

\* SignatureGenerator::parse_single_condition
parse_single_condition(expr) == parse_atomic_condition_str(expr)

\* the fallback returning the first piece only
parse_simple_condition_first_piece(condition_string) ==
  <<parse_single_condition(trim(split(condition_string, AndSeparator)[1]))>>

\* SignatureGenerator::parse_simple_condition
parse_simple_condition(condition_string) ==
  LET parts == split(condition_string, AndSeparator)
      conds == [i \in 1..Len(parts) |-> parse_single_condition(trim(parts[i]))]
  IN <<Flatten(conds)>>

\* parse_transition_condition returning the conjunctions of to_dnf as they
\* are
keep_conjunctions(dnf) == dnf

\* the `.map(|conj| ...)` of parse_transition_condition: every conjunction
\* of the DNF with its repeated (variable, operator, value) triples removed
dedup_conjunctions(dnf) == [i \in 1..Len(dnf) |-> Dedup(dnf[i], {})]

\* parse_transition_condition after `parser.parse()`: the DNF of the
\* expression, or the fallback when the parser returned None
dnf_of_parsed(condition_string, expr) ==
  IF expr = None THEN parse_simple_condition(condition_string)
  ELSE dedup_conjunctions(to_dnf(expr[1]))

\* parse_transition_condition after `tokenizer.tokenize()`
parse_tokenized(condition_string, toks) ==
  IF toks.panic THEN [panic |-> TRUE, dnf |-> <<>>]
  ELSE IF toks.tokens = <<>> THEN [panic |-> FALSE, dnf |-> <<<<>>>>]
  ELSE [panic |-> FALSE,
        dnf |-> dnf_of_parsed(condition_string, parse(toks.tokens).expr)]

\* SignatureGenerator::parse_transition_condition: [panic, dnf].  panic is
\* TRUE when the tokeniser slices the guard off a character boundary; the
\* function then returns nothing.
parse_transition_condition(condition_string) ==
  IF condition_string = <<>> \/ condition_string = NoCheck
  THEN [panic |-> FALSE, dnf |-> <<<<>>>>]
  ELSE parse_tokenized(condition_string, tokenize(condition_string))

\* the comparator of remove_redundancy_in_path's sort_by: variable, then
\* operator, then value; -1, 0 or 1
CondCmp(a, b) ==
  IF StrCmp(a.variable, b.variable) # 0 THEN StrCmp(a.variable, b.variable)
  ELSE IF StrCmp(a.operator, b.operator) # 0 THEN StrCmp(a.operator, b.operator)
  ELSE StrCmp(a.value, b.value)

RECURSIVE InsertSorted(_, _), sort_by(_)
\* c put after the last element of the sorted sequence that is not greater
InsertSorted(sorted, c) ==
  IF sorted = <<>> THEN <<c>>
  ELSE IF CondCmp(c, Head(sorted)) < 0 THEN <<c>> \o sorted
  ELSE <<Head(sorted)>> \o InsertSorted(Tail(sorted), c)

\* slice::sort_by with CondCmp (a stable sort)
sort_by(conditions) ==
  IF conditions = <<>> THEN <<>>
  ELSE InsertSorted(sort_by(SubSeq(conditions, 1, Len(conditions) - 1)),
                    conditions[Len(conditions)])

\* remove_redundancy_in_path without its sort_by
remove_redundancy_unsorted(conditions) == Dedup(conditions, {})

\* SignatureGenerator::remove_redundancy_in_path
remove_redundancy_in_path(conditions) == sort_by(Dedup(conditions, {}))

\* Condition::to_string
to_string(c) == c.variable \o <<" ">> \o c.operator \o <<" ">> \o c.value

Initial == <<"[", "i", "n", "i", "t", "i", "a", "l", "]">>

RECURSIVE join(_, _)
\* [String]::join(sep)
join(ss, sep) ==
  IF ss = <<>> THEN <<>>
  ELSE IF Len(ss) = 1 THEN ss[1]
  ELSE ss[1] \o sep \o join(Tail(ss), sep)

\* format_conditions joining the conditions with ", "
format_conditions_comma(conditions) ==
  IF conditions = <<>> THEN Initial
  ELSE join([i \in 1..Len(conditions) |-> to_string(conditions[i])], <<",", " ">>)

\* PathSignature::format_conditions, of the conditions of a PathSignature
format_conditions(conditions) ==
  IF conditions = <<>> THEN Initial
  ELSE join([i \in 1..Len(conditions) |-> to_string(conditions[i])], AndSeparator)

\* PathSignature::new
PathSignature(conditions, path_id) ==
  [conditions |-> conditions, path_id |-> path_id]

\* the orders in which a HashMap with key set S may be iterated
Orders(S) ==
  {o \in [1..Cardinality(S) -> S] : \A k \in S : \E i \in DOMAIN o : o[i] = k}

\* `grouped` filled by insert: the last signature of every key stays
grouped_by_insert(signatures) ==
  LET keys == {format_conditions(signatures[i].conditions) : i \in 1..Len(signatures)}
  IN [key \in keys |->
        signatures[CHOOSE i \in 1..Len(signatures) :
                     /\ format_conditions(signatures[i].conditions) = key
                     /\ \A j \in (i + 1)..Len(signatures) :
                          format_conditions(signatures[j].conditions) # key]]

\* the HashMap `grouped` of merge_equivalent_signatures after its loop:
\* entry(key).or_insert(sig) keeps the first signature of every key
grouped(signatures) ==
  LET keys == {format_conditions(signatures[i].conditions) : i \in 1..Len(signatures)}
  IN [key \in keys |->
        signatures[CHOOSE i \in 1..Len(signatures) :
                     /\ format_conditions(signatures[i].conditions) = key
                     /\ \A j \in 1..(i - 1) :
                          format_conditions(signatures[j].conditions) # key]]

\* merge_equivalent_signatures keeping every signature
merge_keeps_all(signatures) == {signatures}

\* SignatureGenerator::merge_equivalent_signatures: the vectors that
\* grouped.into_values().collect() may return
merge_equivalent_signatures(signatures) ==
  IF Len(signatures) <= 1 THEN {signatures}
  ELSE LET g == grouped(signatures) IN
       {[i \in 1..Len(o) |-> g[o[i]]] : o \in Orders(DOMAIN g)}

RECURSIVE cross_product_from(_, _, _)
\* the `for dnf in dnfs.iter().skip(1)` loop of cross_product_dnf
cross_product_from(dnfs, i, result) ==
  IF i > Len(dnfs) THEN result
  ELSE cross_product_from(dnfs, i + 1, CrossTerms(result, dnfs[i]))

\* cross_product_dnf returning no conjunction for no DNF
cross_product_dnf_of_none_empty(dnfs) ==
  IF dnfs = <<>> THEN <<>> ELSE cross_product_from(dnfs, 2, dnfs[1])

\* SignatureGenerator::cross_product_dnf
cross_product_dnf(dnfs) ==
  IF dnfs = <<>> THEN <<<<>>>> ELSE cross_product_from(dnfs, 2, dnfs[1])

\* the transitions a path takes, in order (its elements with Some(idx))
PathTransitions(f, path) ==
  LET steps == SelectSeq(path, LAMBDA el : el.transition # None)
  IN [i \in 1..Len(steps) |-> f.transitions[steps[i].transition[1] + 1]]

\* SignatureGenerator::extract_conditions_from_path
extract_conditions_from_path(f, path) ==
  LET ts == PathTransitions(f, path) IN
  cross_product_dnf([i \in 1..Len(ts) |->
                       parse_transition_condition(ts[i].condition).dnf])

\* parse_transition_condition panics on a guard of the path
PathPanics(f, path) ==
  LET ts == PathTransitions(f, path) IN
  \E i \in 1..Len(ts) : parse_transition_condition(ts[i].condition).panic

\* the inner loop of build_signature_for_state over the conjunctions of
\* all paths of the state: each cleaned and numbered from 0
number_signatures(all_conditions) ==
  [k \in 1..Len(all_conditions) |->
     PathSignature(remove_redundancy_in_path(all_conditions[k]), k - 1)]

\* the path_signatures vector of build_signature_for_state before the
\* merge: signature_id counts the conjunctions of all paths from 0
SignaturesBeforeMerge(f, state_paths) ==
  number_signatures(Flatten([i \in 1..Len(state_paths) |->
                               extract_conditions_from_path(f, state_paths[i])]))

\* build_signature_for_state counting the PathSignatures the merge kept
build_signature_counting_kept(f, state_id, state_paths) ==
  {[state_id |-> state_id, path_signatures |-> merged,
    paths_count |-> Len(merged)] :
     merged \in merge_equivalent_signatures(SignaturesBeforeMerge(f, state_paths))}

\* SignatureGenerator::build_signature_for_state: the StateSignatures it
\* may return (one per iteration order of the merge's HashMap)
build_signature_for_state(f, state_id, state_paths) ==
  {[state_id |-> state_id, path_signatures |-> merged,
    paths_count |-> Len(state_paths)] :
     merged \in merge_equivalent_signatures(SignaturesBeforeMerge(f, state_paths))}

RECURSIVE SignaturesInOrder(_, _, _)
\* the IndexMap `signatures` that the loop of generate fills when it meets
\* the keys of `paths` in the given order
SignaturesInOrder(f, pts, order) ==
  IF order = <<>> THEN {<<>>}
  ELSE {<<sig>> \o rest :
          sig \in build_signature_for_state(f, Head(order), pts[Head(order)]),
          rest \in SignaturesInOrder(f, pts, Tail(order))}

\* the loop of generate over the HashMap `paths`: the tables it may fill
generate_from(f, pts) ==
  IF \E sid \in DOMAIN pts : \E i \in 1..Len(pts[sid]) : PathPanics(f, pts[sid][i])
  THEN {[panic |-> TRUE, signatures |-> <<>>]}
  ELSE {[panic |-> FALSE, signatures |-> sigs] :
          sigs \in UNION {SignaturesInOrder(f, pts, o) : o \in Orders(DOMAIN pts)}}

\* SignatureGenerator::generate: the tables it may return, [panic,
\* signatures]; function_block_name and case_variable are copied from the
\* block and left out.  It panics when a guard it parses does.
generate(f) == generate_from(f, find_all_paths(f))

-----------------------------------------------------------------------------
(* The matcher                                                             *)

RECURSIVE DigitsValue(_)
\* the number a string of digits writes
DigitsValue(s) ==
  IF s = <<>> THEN 0
  ELSE 10 * DigitsValue(SubSeq(s, 1, Len(s) - 1)) + (IndexOf(Digits, s[Len(s)]) - 1)

RECURSIVE Pow10(_)
Pow10(n) == IF n = 0 THEN 1 ELSE 10 * Pow10(n - 1)

\* str::parse::<f64> on the decimal literals [+-]?digits[.digits] (at
\* least one digit): Some([mantissa, scale]) for mantissa / 10^scale, None
\* for an Err.  Exponents, "inf" and "nan", which f64 also reads, are not
\* modelled and appear in no input of the model.
parse_f64(s) ==
  LET signed == s # <<>> /\ s[1] \in {"+", "-"}
      body == IF signed THEN Tail(s) ELSE s
      dots == {i \in 1..Len(body) : body[i] = "."}
      int == IF dots = {} THEN body
             ELSE SubSeq(body, 1, (CHOOSE i \in dots : TRUE) - 1)
      frac == IF dots = {} THEN <<>>
              ELSE SubSeq(body, (CHOOSE i \in dots : TRUE) + 1, Len(body))
  IN IF Cardinality(dots) > 1 \/ int \o frac = <<>>
        \/ \E i \in 1..Len(int \o frac) : (int \o frac)[i] \notin Range(Digits)
     THEN None
     ELSE Some([mantissa |-> (IF signed /\ s[1] = "-" THEN -1 ELSE 1)
                               * DigitsValue(int \o frac),
                scale |-> Len(frac)])

\* rv < cv for two parsed numbers
NumLess(rv, cv) == rv.mantissa * Pow10(cv.scale) < cv.mantissa * Pow10(rv.scale)

\* PathSignature::evaluate_condition
evaluate_condition(cond, runtime_value) ==
  LET rv == parse_f64(runtime_value)
      cv == parse_f64(cond.value)
  IN CASE cond.operator = OpEq -> runtime_value = cond.value
       [] cond.operator = OpNe -> runtime_value # cond.value
       [] cond.operator = OpLt ->
            IF rv # None /\ cv # None THEN NumLess(rv[1], cv[1]) ELSE FALSE
       [] cond.operator = OpLe ->
            IF rv # None /\ cv # None THEN ~NumLess(cv[1], rv[1]) ELSE FALSE
       [] cond.operator = OpGt ->
            IF rv # None /\ cv # None THEN NumLess(cv[1], rv[1]) ELSE FALSE
       [] cond.operator = OpGe ->
            IF rv # None /\ cv # None THEN ~NumLess(rv[1], cv[1]) ELSE FALSE
       [] OTHER -> FALSE

\* matches letting a condition on an absent variable pass
matches_absent_passes(conditions, rvars) ==
  \A i \in 1..Len(conditions) :
     IF conditions[i].variable \in DOMAIN rvars
     THEN evaluate_condition(conditions[i], rvars[conditions[i].variable])
     ELSE TRUE

\* PathSignature::matches, of the conditions of a PathSignature
matches(conditions, rvars) ==
  \A i \in 1..Len(conditions) :
     IF conditions[i].variable \in DOMAIN rvars
     THEN evaluate_condition(conditions[i], rvars[conditions[i].variable])
     ELSE FALSE

\* StateSignature::new
NewStateSignature(state_id) ==
  [state_id |-> state_id, path_signatures |-> <<>>, paths_count |-> 0]

\* matches_any asking every PathSignature to match
matches_all(sig, rvars) ==
  IF sig.path_signatures = <<>> THEN TRUE
  ELSE \A i \in 1..Len(sig.path_signatures) :
          matches(sig.path_signatures[i].conditions, rvars)

\* StateSignature::matches_any
matches_any(sig, rvars) ==
  IF sig.path_signatures = <<>> THEN TRUE
  ELSE \E i \in 1..Len(sig.path_signatures) :
          matches(sig.path_signatures[i].conditions, rvars)

\* StateSignatureTable::get_signature: Option<StateSignature>
get_signature(t, state_id) ==
  LET hits == {i \in 1..Len(t.signatures) : t.signatures[i].state_id = state_id}
  IN IF hits = {} THEN None ELSE Some(t.signatures[CHOOSE i \in hits : TRUE])

\* StateSignatureTable::verify_state
verify_state(t, state_id, rvars) ==
  IF get_signature(t, state_id) # None
  THEN matches_any(get_signature(t, state_id)[1], rvars)
  ELSE FALSE

-----------------------------------------------------------------------------
(* Building a function block and enumerating its paths                     *)

\* the state ids a block is built from
StateIds == {"10", "20", "30"}

\* the most transitions a block is given
MaxTransitions == 3

\* the guards of the blocks whose paths are enumerated
PathGuards == {<<>>}

\* the variables of the guard pipeline and of the matcher at rest
IdleGuard ==
  /\ condition_str = <<>> /\ parsed = None
  /\ conjunction = <<>> /\ formatted = None
IdleMatcher == runtime_vars = <<>> /\ matched = None
IdleStages ==
  /\ tokenized = None /\ atomic_cond = None /\ parser = None
  /\ bool_expr = None /\ normal_form = None /\ finder = None
  /\ unreachable = None

\* FunctionBlock::new, nothing analysed yet
Init ==
  /\ fsm = NewFunctionBlock
  /\ paths = None /\ table = None /\ prev_table = None
  /\ IdleStages
  /\ IdleGuard /\ IdleMatcher

\* the block is still being built: the analyses take it read-only
Building == paths = None /\ table = None /\ finder = None /\ unreachable = None

\* FsmExtractor::build_function_block, first pass: one case element
\* becomes a state
AddState(id) ==
  /\ Building
  /\ fsm.transitions = <<>>
  /\ fsm' = add_state(fsm, NewState(id))
  /\ UNCHANGED <<paths, table, prev_table, condition_str, parsed,
                 conjunction, formatted, runtime_vars, matched>>
  /\ UNCHANGED stage_vars

\* FsmExtractor::build_function_block, second pass: an assignment to the
\* case variable in the case element `current_state` becomes a transition,
\* its target state is added if it is missing, and an empty condition is
\* recorded as "No Check"
ExtractTransition(current_state, next_state, condition, max) ==
  /\ Building
  /\ contains_key(fsm, current_state)
  /\ Len(fsm.transitions) < max
  /\ fsm' = add_transition(
              IF contains_key(fsm, next_state) THEN fsm
              ELSE add_state(fsm, NewState(next_state)),
              NewTransition(current_state, next_state,
                            IF condition = <<>> THEN NoCheck ELSE condition))
  /\ UNCHANGED <<paths, table, prev_table, condition_str, parsed,
                 conjunction, formatted, runtime_vars, matched>>
  /\ UNCHANGED stage_vars

\* a call of PathFinder::find_all_paths on the block
FindAllPaths ==
  /\ Building
  /\ paths' = Some(find_all_paths(fsm))
  /\ UNCHANGED <<fsm, table, prev_table, condition_str, parsed,
                 conjunction, formatted, runtime_vars, matched>>
  /\ UNCHANGED stage_vars

Next ==
  \/ \E id \in StateIds : AddState(id)
  \/ \E from \in StateIds, to \in StateIds, g \in PathGuards :
       ExtractTransition(from, to, g, MaxTransitions)
  \/ FindAllPaths

Spec == Init /\ [][Next]_vars

-----------------------------------------------------------------------------
(* Claims about the path enumerator                                        *)

\* every path the enumerator emitted, with the state it was emitted for
EmittedPaths ==
  UNION {{<<sid, paths[1][sid][i]>> : i \in 1..Len(paths[1][sid])} :
           sid \in DOMAIN paths[1]}

\* the path visits no state id twice
VisitsOnce(path) ==
  \A i \in 1..Len(path), j \in 1..Len(path) : path[i].state = path[j].state => i = j

\* every element after the first arrives by a transition of the block that
\* leads from the element before it to it
Chained(f, path) ==
  \A i \in 2..Len(path) :
     /\ path[i].transition # None
     /\ path[i].transition[1] \in 0..(Len(f.transitions) - 1)
     /\ f.transitions[path[i].transition[1] + 1].from_state = path[i - 1].state
     /\ f.transitions[path[i].transition[1] + 1].to_state = path[i].state

\* C2: every path find_all_paths emits visits each state id at most once,
\* its first element carries no transition index, and every later element
\* (s_i, Some(t_i)) has transitions[t_i] leading from s_{i-1} to s_i.
PathAcyclicity ==
  paths # None =>
    \A e \in EmittedPaths :
       /\ e[2] # <<>>
       /\ VisitsOnce(e[2])
       /\ e[2][1].transition = None
       /\ Chained(fsm, e[2])

\* C2 witness: a block with a cycle or a self-loop has been enumerated and
\* a path of three states was emitted.
PathAcyclicityWitness ==
  /\ paths # None
  /\ \E t \in 1..Len(fsm.transitions) :
        fsm.transitions[t].from_state = fsm.transitions[t].to_state
  /\ \E e \in EmittedPaths : Len(e[2]) = 3

RECURSIVE WalksFrom(_, _, _)
\* the simple walks of the block that extend `path` (which ends in the
\* state `last` and visits no state twice), `path` itself included
WalksFrom(f, path, last) ==
  {path} \cup
  UNION {WalksFrom(f,
                   Append(path, [state |-> f.transitions[t].to_state,
                                 transition |-> Some(t - 1)]),
                   f.transitions[t].to_state) :
           t \in {u \in 1..Len(f.transitions) :
                    /\ f.transitions[u].from_state = last
                    /\ \A i \in 1..Len(path) :
                         path[i].state # f.transitions[u].to_state}}

\* the simple walks of the block that start in a starting state
SimpleWalks(f) ==
  UNION {WalksFrom(f, <<[state |-> starting_states(f)[i], transition |-> None]>>,
                   starting_states(f)[i]) : i \in 1..Len(starting_states(f))}

\* how often x occurs in the sequence s
Occurrences(s, x) == Cardinality({i \in 1..Len(s) : s[i] = x})

\* C3: find_all_paths has an entry exactly for the states a simple walk
\* from a starting state leads to, and the entry of a state lists every
\* such walk to it exactly once and nothing else.
PathsComplete ==
  paths # None =>
    LET walks == SimpleWalks(fsm) IN
    /\ DOMAIN paths[1] = {w[Len(w)].state : w \in walks}
    /\ \A w \in walks : Occurrences(paths[1][w[Len(w)].state], w) = 1
    /\ \A e \in EmittedPaths : e[2] \in walks /\ e[2][Len(e[2])].state = e[1]

\* C3 witness: a state that two simple walks lead to, and a state of the
\* block that none leads to, after the enumeration.
PathsCompleteWitness ==
  /\ paths # None
  /\ \E sid \in DOMAIN paths[1] : Len(paths[1][sid]) >= 2
  /\ \E i \in 1..Len(fsm.states) : fsm.states[i].id \notin DOMAIN paths[1]

-----------------------------------------------------------------------------
(* Generating signature tables                                             *)

\* the atomic conditions of the guards of the blocks that are signed
CondA == Condition(<<"a">>, OpEq, <<"1">>)
CondB == Condition(<<"b">>, OpEq, <<"2">>)
SigAtoms == {CondA, CondB}

\* the guard text of a single atomic condition, and of `left OR right`
AtomGuard(c) == to_string(c)
OrGuard(left, right) == left \o <<" ", "O", "R", " ">> \o right

\* the guards of the blocks that are signed: "a = 1", "b = 2" and
\* "a = 1 OR b = 2"
SigGuards ==
  {AtomGuard(c) : c \in SigAtoms} \cup {OrGuard(AtomGuard(CondA), AtomGuard(CondB))}

\* the most transitions a signed block is given
MaxGuarded == 2

\* the transitions of the blocks that are signed: a chain, a shortcut past
\* its middle state and, by repetition, parallel transitions
SigEdges == {<<"10", "20">>, <<"20", "30">>, <<"10", "30">>}

\* the block of the tests before its transitions: states 10, 20 and 30
ThreeStates ==
  add_state(add_state(add_state(NewFunctionBlock, NewState("10")),
                      NewState("20")), NewState("30"))

SigInit ==
  /\ fsm = ThreeStates
  /\ paths = None /\ table = None /\ prev_table = None
  /\ IdleStages
  /\ IdleGuard /\ IdleMatcher

\* a call of SignatureGenerator::generate on the block, the run-th at most;
\* prev_table keeps the table of the call before
Generate(max_runs) ==
  /\ \/ table = None
     \/ max_runs >= 2 /\ prev_table = None
  /\ paths' = Some(find_all_paths(fsm))
  /\ \E t \in generate(fsm) : table' = Some(t)
  /\ prev_table' = table
  /\ UNCHANGED <<fsm, condition_str, parsed, conjunction, formatted,
                 runtime_vars, matched>>
  /\ UNCHANGED stage_vars

SigNext ==
  \/ \E edge \in SigEdges, g \in SigGuards :
       ExtractTransition(edge[1], edge[2], g, MaxGuarded)
  \/ Generate(1)

\* blocks with guards, signed once
SpecSig == SigInit /\ [][SigNext]_vars

RunsNext ==
  \/ \E from \in StateIds, to \in StateIds, g \in {AtomGuard(c) : c \in SigAtoms} :
       ExtractTransition(from, to, g, MaxGuarded)
  \/ Generate(2)

\* blocks with atomic guards, signed twice
SpecRuns == SigInit /\ [][RunsNext]_vars

-----------------------------------------------------------------------------
(* Parsing one guard                                                       *)

\* the pieces the guards that are parsed are written from
GuardPieces ==
  {AtomGuard(CondA), AtomGuard(CondB), <<"b">>, AndSeparator,
   <<" ", "O", "R", " ">>, <<"N", "O", "T", " ">>, <<"(">>, <<")">>, <<"é">>}

\* the most pieces a guard is written from
MaxPieces == 3

\* the guards that are parsed: up to MaxPieces pieces in a row
GuardPool ==
  {Flatten(ps) : ps \in UNION {[1..n -> GuardPieces] : n \in 0..MaxPieces}}

GuardInit ==
  /\ fsm = NewFunctionBlock
  /\ paths = None /\ table = None /\ prev_table = None
  /\ IdleStages
  /\ condition_str \in GuardPool
  /\ parsed = None
  /\ conjunction = <<>> /\ formatted = None
  /\ IdleMatcher

\* a call of SignatureGenerator::parse_transition_condition on the guard
ParseGuard ==
  /\ parsed = None
  /\ parsed' = Some(parse_transition_condition(condition_str))
  /\ UNCHANGED <<fsm, paths, table, prev_table, condition_str, conjunction,
                 formatted, runtime_vars, matched>>
  /\ UNCHANGED stage_vars

GuardNext == ParseGuard

\* one guard, parsed once
SpecGuard == GuardInit /\ [][GuardNext]_vars

\* the expression parser returns an expression for the guard
ParserSucceeds(s) ==
  /\ ~tokenize(s).panic
  /\ tokenize(s).tokens # <<>>
  /\ parse(tokenize(s).tokens).expr # None

\* the sequence is strictly ascending by (variable, operator, value): it
\* is sorted and holds no triple twice
Canonical(conditions) ==
  \A i \in 1..(Len(conditions) - 1) : CondCmp(conditions[i], conditions[i + 1]) < 0

\* no (variable, operator, value) triple occurs twice in the conjunction
DuplicateFree(conditions) ==
  \A i \in 1..Len(conditions), j \in 1..Len(conditions) :
     conditions[i] = conditions[j] => i = j

-----------------------------------------------------------------------------
(* Formatting a conjunction and parsing it back                            *)

\* the atomic conditions of the conjunctions that are formatted: "a" against
\* "1" under every operator, and names and values that hold a keyword or
\* parentheses
FormatAtoms ==
  {Condition(<<"a">>, operators[i], <<"1">>) : i \in 1..Len(operators)}
    \cup {Condition(v, OpEq, <<"1">>) : v \in {<<"x", "O", "R">>, KwNOT}}
    \cup {Condition(<<"b">>, OpEq, v) :
            v \in {<<"(", "x", ")">>, KwAND, <<"x", "A", "N", "D">>}}

\* the most atomic conditions a formatted conjunction holds
MaxConjuncts == 3

\* the canonical conjunctions over FormatAtoms
CanonicalConjunctions ==
  {c \in UNION {[1..n -> FormatAtoms] : n \in 0..MaxConjuncts} : Canonical(c)}

FormatInit ==
  /\ fsm = NewFunctionBlock
  /\ paths = None /\ table = None /\ prev_table = None
  /\ IdleStages
  /\ condition_str = <<>> /\ parsed = None
  /\ conjunction \in CanonicalConjunctions
  /\ formatted = None
  /\ IdleMatcher

\* PathSignature::format_conditions on a PathSignature of the conjunction
Format ==
  /\ formatted = None
  /\ formatted' = Some(format_conditions(conjunction))
  /\ UNCHANGED <<fsm, paths, table, prev_table, condition_str, parsed,
                 conjunction, runtime_vars, matched>>
  /\ UNCHANGED stage_vars

\* SignatureGenerator::parse_transition_condition on the formatted string
Reparse ==
  /\ formatted # None /\ parsed = None
  /\ condition_str' = formatted[1]
  /\ parsed' = Some(parse_transition_condition(formatted[1]))
  /\ UNCHANGED <<fsm, paths, table, prev_table, conjunction, formatted,
                 runtime_vars, matched>>
  /\ UNCHANGED stage_vars

FormatNext == Format \/ Reparse

\* one conjunction, formatted and parsed back
SpecFormat == FormatInit /\ [][FormatNext]_vars

\* the string is a word of ASCII letters, digits and "_" other than the
\* keywords AND, OR and NOT
IsPlainWord(s) ==
  /\ s # <<>>
  /\ \A i \in 1..Len(s) :
        s[i] \in Range(Digits) \cup Range(Uppers) \cup Range(Lowers) \cup {"_"}
  /\ s \notin {KwAND, KwOR, KwNOT}

\* C9 as stated: parsing the formatted string of a canonical conjunction
\* returns exactly that conjunction.
FormatRoundTrip ==
  parsed # None => parsed[1] = [panic |-> FALSE, dnf |-> <<conjunction>>]

\* C9 as amended: parsing the formatted string of a canonical conjunction
\* returns exactly that conjunction when every variable and every value of
\* it is a word of ASCII letters, digits and "_" other than AND, OR and NOT.
FormatRoundTripOfWords ==
  (/\ parsed # None
   /\ \A i \in 1..Len(conjunction) :
         IsPlainWord(conjunction[i].variable) /\ IsPlainWord(conjunction[i].value))
    => parsed[1] = [panic |-> FALSE, dnf |-> <<conjunction>>]

\* C9 witness: a conjunction of three atomic conditions over plain words
\* has been formatted and read back by the expression parser.
FormatRoundTripOfWordsWitness ==
  /\ parsed # None
  /\ Len(conjunction) = 3
  /\ \A i \in 1..Len(conjunction) :
        IsPlainWord(conjunction[i].variable) /\ IsPlainWord(conjunction[i].value)
  /\ ParserSucceeds(formatted[1])

-----------------------------------------------------------------------------
(* Verifying a runtime state against a table                               *)

\* the variables and the values of the runtime assignments
RuntimeVariables == {<<"a">>, <<"b">>}
RuntimeValues == {<<"1">>, <<"2">>, <<"x">>}

\* the runtime assignments: every map from some of the variables to values
Assignments ==
  UNION {[vs -> RuntimeValues] : vs \in SUBSET RuntimeVariables}

\* the guards of the parallel transitions 10 -> 20 of the verified blocks
MatchAtoms ==
  {CondA, CondB, Condition(<<"a">>, OpLt, <<"2">>)}

\* the most parallel transitions a verified block is given
MaxParallel == 2

\* an operator evaluate_condition does not know
OpUnknown == <<"=", "=">>

\* the atomic conditions of the tables that are read in: "a" against "1"
\* under the six operators and the unknown one, and against a value that
\* is not a number
LoadedAtoms ==
  {Condition(<<"a">>, op, <<"1">>) : op \in Range(operators) \cup {OpUnknown}}
    \cup {Condition(<<"a">>, OpLt, <<"x">>)}

\* the most atomic conditions the PathSignature of such a table holds
MaxLoaded == 2

\* the tables that are read in: state "10" with StateSignature::new, or
\* with one PathSignature of up to MaxLoaded conditions
LoadedTables ==
  {[panic |-> FALSE, signatures |-> <<sig>>] :
     sig \in {NewStateSignature("10")} \cup
       {[state_id |-> "10", path_signatures |-> <<PathSignature(cs, 0)>>,
         paths_count |-> 1] :
          cs \in UNION {[1..n -> LoadedAtoms] : n \in 1..MaxLoaded}}}

\* the state ids that are verified: those of the blocks and an unknown one
VerifiedIds == StateIds \cup {"40"}

MatchInit ==
  /\ fsm = ThreeStates
  /\ paths = None /\ table = None /\ prev_table = None
  /\ IdleStages
  /\ IdleGuard
  /\ runtime_vars \in Assignments
  /\ matched = None

\* a StateSignatureTable read in by its Deserialize implementation
Deserialize(t) ==
  /\ Building
  /\ fsm.transitions = <<>>
  /\ table' = Some(t)
  /\ UNCHANGED <<fsm, paths, prev_table, condition_str, parsed, conjunction,
                 formatted, runtime_vars, matched>>
  /\ UNCHANGED stage_vars

\* a call of StateSignatureTable::verify_state on the table
VerifyState(state_id) ==
  /\ table # None
  /\ matched = None
  /\ matched' = Some([state_id |-> state_id,
                      result |-> verify_state(table[1], state_id, runtime_vars)])
  /\ UNCHANGED <<fsm, paths, table, prev_table, condition_str, parsed,
                 conjunction, formatted, runtime_vars>>
  /\ UNCHANGED stage_vars

MatchNext ==
  \/ \E c \in MatchAtoms : ExtractTransition("10", "20", AtomGuard(c), MaxParallel)
  \/ Generate(1)
  \/ \E t \in LoadedTables : Deserialize(t)
  \/ \E state_id \in VerifiedIds : VerifyState(state_id)

\* a table, generated or read in, and a runtime state verified against it
SpecMatch == MatchInit /\ [][MatchNext]_vars

\* the StateSignatures of the table
TableSignatures == table[1].signatures

\* the number a value of the model writes, for those that write one
IsNumeral(v) == v \in {<<"1">>, <<"2">>}
NumeralValue(v) == IF v = <<"1">> THEN 1 ELSE 2

\* the atomic condition is true under the assignment
Satisfies(rvars, c) ==
  /\ c.variable \in DOMAIN rvars
  /\ \/ c.operator = OpEq /\ rvars[c.variable] = c.value
     \/ c.operator = OpNe /\ rvars[c.variable] # c.value
     \/ /\ IsNumeral(rvars[c.variable]) /\ IsNumeral(c.value)
        /\ \/ c.operator = OpLt /\ NumeralValue(rvars[c.variable]) < NumeralValue(c.value)
           \/ c.operator = OpLe /\ NumeralValue(rvars[c.variable]) <= NumeralValue(c.value)
           \/ c.operator = OpGt /\ NumeralValue(rvars[c.variable]) > NumeralValue(c.value)
           \/ c.operator = OpGe /\ NumeralValue(rvars[c.variable]) >= NumeralValue(c.value)

\* the StateSignatures of the table for the verified state id
VerifiedSignatures ==
  {TableSignatures[i] : i \in {j \in 1..Len(TableSignatures) :
                                 TableSignatures[j].state_id = matched[1].state_id}}

\* the block is state 10 with parallel transitions to state 20
ParallelBlock ==
  /\ fsm.transitions # <<>>
  /\ \A t \in 1..Len(fsm.transitions) :
        fsm.transitions[t].from_state = "10" /\ fsm.transitions[t].to_state = "20"

\* the atomic condition a guard of the verified blocks was written from
MatchGuardAtom(condition) == CHOOSE c \in MatchAtoms : AtomGuard(c) = condition

\* C4: verify_state on a state with a signature returns true iff the
\* signature has no PathSignature or one of its PathSignatures has every
\* atomic condition true under the assignment; for state 20 reached by
\* parallel transitions with single-atomic guards that is iff the
\* assignment satisfies one of the guards, and never for the empty
\* assignment.
MatcherSound ==
  matched # None =>
    /\ \A sig \in VerifiedSignatures :
          matched[1].result
            = (\/ sig.path_signatures = <<>>
               \/ \E k \in 1..Len(sig.path_signatures) :
                     \A c \in Range(sig.path_signatures[k].conditions) :
                        Satisfies(runtime_vars, c))
    /\ (ParallelBlock /\ paths # None /\ matched[1].state_id = "20") =>
          /\ matched[1].result
               = \E t \in 1..Len(fsm.transitions) :
                    Satisfies(runtime_vars, MatchGuardAtom(fsm.transitions[t].condition))
          /\ DOMAIN runtime_vars = {} => ~matched[1].result

\* C4 witness: state 20, reached by two parallel transitions with different
\* guards, verified under an assignment that satisfies one guard and not
\* the other.
MatcherSoundWitness ==
  /\ matched # None /\ paths # None /\ ParallelBlock
  /\ matched[1].state_id = "20" /\ matched[1].result
  /\ \E t \in 1..Len(fsm.transitions) :
        ~Satisfies(runtime_vars, MatchGuardAtom(fsm.transitions[t].condition))

\* the atomic condition cannot be evaluated under the assignment: its
\* variable is absent, or it compares and a side is not a number, or its
\* operator is not one of the six
Unevaluable(rvars, c) ==
  \/ c.variable \notin DOMAIN rvars
  \/ /\ c.operator \in {OpLt, OpLe, OpGt, OpGe}
     /\ ~(IsNumeral(rvars[c.variable]) /\ IsNumeral(c.value))
  \/ c.operator \notin Range(operators)

\* C5: verify_state returns false, and does not fail, for a state id
\* without a signature and for a state all of whose PathSignatures hold an
\* atomic condition whose variable is absent (under any operator), which
\* compares with <, <=, > or >= and has a side that is not a number, or
\* whose operator is not one of the six.
MatchFailuresAreFalse ==
  matched # None =>
    /\ matched[1].result \in BOOLEAN
    /\ VerifiedSignatures = {} => ~matched[1].result
    /\ \A sig \in VerifiedSignatures :
          (/\ sig.path_signatures # <<>>
           /\ \A k \in 1..Len(sig.path_signatures) :
                 \E c \in Range(sig.path_signatures[k].conditions) :
                    Unevaluable(runtime_vars, c))
            => ~matched[1].result

\* C5 witness: a state verified whose only PathSignature holds a `<>` on a
\* variable the assignment does not have.
MatchFailuresAreFalseWitness ==
  /\ matched # None
  /\ \E sig \in VerifiedSignatures :
        /\ Len(sig.path_signatures) = 1
        /\ \E c \in Range(sig.path_signatures[1].conditions) :
              c.operator = OpNe /\ c.variable \notin DOMAIN runtime_vars

-----------------------------------------------------------------------------
(* Claims about the generated tables                                       *)

\* C1: two runs of generate on the same block return identical tables: the
\* same state ids in the same order and, per state, the same PathSignatures
\* in the same positions.
GenerateDeterministic ==
  (table # None /\ prev_table # None) => table = prev_table

\* the transitions of the block form the chain states[1] -> states[2] ->
\* ... through pairwise different states
IsChain(f, states) ==
  /\ Len(states) = Len(f.transitions) + 1
  /\ \A i \in 1..Len(states), j \in 1..Len(states) : states[i] = states[j] => i = j
  /\ \E o \in Orders(1..Len(f.transitions)) :
        \A i \in 1..Len(f.transitions) :
           /\ f.transitions[o[i]].from_state = states[i]
           /\ f.transitions[o[i]].to_state = states[i + 1]

\* the chains the transitions of the block form
Chains(f) ==
  {states \in UNION {Orders(S) : S \in SUBSET StateIds} :
     f.transitions # <<>> /\ IsChain(f, states)}

\* the atomic condition a single-atomic guard was written from
GuardAtom(condition) == CHOOSE c \in SigAtoms : AtomGuard(c) = condition

\* every guard of the block is a single atomic condition
SingleAtomicGuards(f) ==
  \A i \in 1..Len(f.transitions) :
     \E c \in SigAtoms : AtomGuard(c) = f.transitions[i].condition

\* C7: every PathSignature of a generated table is sorted ascending by
\* variable, operator, value and holds no triple twice; the last state of a
\* linear chain with single-atomic guards has exactly one PathSignature,
\* whose conditions are the set of the guards of the chain.
SignaturesCanonical ==
  table # None =>
    /\ \A i \in 1..Len(TableSignatures) :
          \A k \in 1..Len(TableSignatures[i].path_signatures) :
             Canonical(TableSignatures[i].path_signatures[k].conditions)
    /\ SingleAtomicGuards(fsm) =>
          \A states \in Chains(fsm) :
             \E i \in 1..Len(TableSignatures) :
                /\ TableSignatures[i].state_id = states[Len(states)]
                /\ TableSignatures[i].paths_count = 1
                /\ Len(TableSignatures[i].path_signatures) = 1
                /\ Range(TableSignatures[i].path_signatures[1].conditions)
                     = {GuardAtom(fsm.transitions[t].condition) :
                          t \in 1..Len(fsm.transitions)}

\* C7 witness: the chain 10 -> 20 -> 30 guarded by "b = 2" and then "a = 1"
\* has been signed, so that the guards arrive out of order.
SignaturesCanonicalWitness ==
  /\ table # None
  /\ <<"10", "20", "30">> \in Chains(fsm)
  /\ \E t \in 1..Len(fsm.transitions) :
        /\ fsm.transitions[t].from_state = "10"
        /\ fsm.transitions[t].condition = AtomGuard(CondB)
  /\ \E t \in 1..Len(fsm.transitions) :
        /\ fsm.transitions[t].from_state = "20"
        /\ fsm.transitions[t].condition = AtomGuard(CondA)

\* the formatted condition strings of a vector of PathSignatures
FormattedStrings(signatures) ==
  [i \in 1..Len(signatures) |-> format_conditions(signatures[i].conditions)]

\* C8: in a generated table no two PathSignatures of a state have the same
\* formatted string, every PathSignature built before the merge has its
\* formatted string on exactly one kept PathSignature, every kept one was
\* built before the merge, and merging the kept ones again returns the same
\* set of PathSignatures.
MergeUniqueAndIdempotent ==
  table # None =>
    \A i \in 1..Len(TableSignatures) :
       LET kept == TableSignatures[i].path_signatures
           before == SignaturesBeforeMerge(fsm, paths[1][TableSignatures[i].state_id])
           kept_strings == FormattedStrings(kept)
           before_strings == FormattedStrings(before)
       IN /\ \A k \in 1..Len(kept), l \in 1..Len(kept) :
                kept_strings[k] = kept_strings[l] => k = l
          /\ \A b \in 1..Len(before) :
                Occurrences(kept_strings, before_strings[b]) = 1
          /\ Range(kept) \subseteq Range(before)
          /\ \A again \in merge_equivalent_signatures(kept) :
                Range(again) = Range(kept)

\* C8 witness: a state whose paths gave more PathSignatures than the merge
\* kept.
MergeUniqueAndIdempotentWitness ==
  /\ table # None
  /\ \E i \in 1..Len(TableSignatures) :
        Len(SignaturesBeforeMerge(fsm, paths[1][TableSignatures[i].state_id]))
          > Len(TableSignatures[i].path_signatures)

-----------------------------------------------------------------------------
(* OR inside a guard against parallel transitions                          *)

\* the guards that are joined by OR: atomic conditions, a negation, a
\* conjunction, and guards with a parenthesis that is not closed, closed
\* without being opened, or followed by more
OrOperands ==
  {AtomGuard(CondA), AtomGuard(CondB),
   <<"N", "O", "T", " ">> \o AtomGuard(CondA),
   AtomGuard(CondA) \o AndSeparator \o AtomGuard(CondB),
   <<"a", " ", "=", " ", "(", "1">>,
   AtomGuard(CondA) \o <<" ", ")">>,
   <<"(">> \o AtomGuard(CondA) \o <<")", "(">> \o AtomGuard(CondB) \o <<")">>}

\* the guards of the transitions 20 -> 30 after the OR
DownstreamGuards == {AtomGuard(CondB)}

\* the block of test_fsm_with_or_condition before its transition: states
\* 10 and 20
TwoStates == add_state(add_state(NewFunctionBlock, NewState("10")), NewState("20"))

OrInit ==
  /\ fsm = TwoStates
  /\ paths = None /\ table = None /\ prev_table = None
  /\ IdleStages
  /\ IdleGuard /\ IdleMatcher

OrNext ==
  \/ \E left \in OrOperands, right \in OrOperands :
       /\ fsm.transitions = <<>>
       /\ ExtractTransition("10", "20", OrGuard(left, right), MaxGuarded)
  \/ \E g \in DownstreamGuards :
       /\ fsm.transitions # <<>>
       /\ ExtractTransition("20", "30", g, MaxGuarded)
  \/ Generate(1)

\* a block whose first transition 10 -> 20 is guarded by `left OR right`,
\* with transitions 20 -> 30 after it, signed once
SpecOr == OrInit /\ [][OrNext]_vars

RECURSIVE add_transitions(_, _)
\* the block after every transition of the sequence was added as
\* ExtractTransition adds one
add_transitions(f, transitions) ==
  IF transitions = <<>> THEN f
  ELSE add_transitions(
         add_transition(IF contains_key(f, Head(transitions).to_state) THEN f
                        ELSE add_state(f, NewState(Head(transitions).to_state)),
                        NewTransition(Head(transitions).from_state,
                                      Head(transitions).to_state,
                                      Head(transitions).condition)),
         Tail(transitions))

\* the block with two parallel transitions 10 -> 20 guarded by left and by
\* right in place of the first transition of f
ParallelOf(f, left, right) ==
  add_transitions(TwoStates,
                  <<NewTransition("10", "20", left), NewTransition("10", "20", right)>>
                    \o Tail(f.transitions))

\* per state id of the table, the set of the conjunctions of its
\* PathSignatures
ConjunctionSets(t) ==
  {<<t.signatures[i].state_id,
     {t.signatures[i].path_signatures[k].conditions :
        k \in 1..Len(t.signatures[i].path_signatures)}>> :
     i \in 1..Len(t.signatures)}

\* how many PathSignatures the table has for the state
SignatureCount(t, state_id) == Len(get_signature(t, state_id)[1].path_signatures)

RECURSIVE Depth(_, _)
\* the parentheses opened and not closed in s after `depth` were open; -1
\* once one is closed that was not opened
Depth(s, depth) ==
  IF depth < 0 \/ s = <<>> THEN depth
  ELSE Depth(Tail(s), IF Head(s) = "(" THEN depth + 1
                      ELSE IF Head(s) = ")" THEN depth - 1 ELSE depth)

\* the guard has balanced parentheses and the expression parser returns an
\* expression for it that uses every token
WellFormed(g) ==
  /\ Depth(g, 0) = 0
  /\ ParserSucceeds(g)
  /\ parse(tokenize(g).tokens).position = Len(tokenize(g).tokens)

\* the pairs of guards the guard of the first transition joins by OR
OrSides ==
  {pair \in OrOperands \X OrOperands :
     OrGuard(pair[1], pair[2]) = fsm.transitions[1].condition}

\* the table of the block agrees with every table of the block with the
\* parallel transitions, and has two PathSignatures for state 20 as they
\* have when the sides are two different atomic guards
AgreesWithParallel(left, right) ==
  \A parallel \in generate(ParallelOf(fsm, left, right)) :
     /\ ConjunctionSets(table[1]) = ConjunctionSets(parallel)
     /\ (left # right /\ {left, right} \subseteq {AtomGuard(c) : c \in SigAtoms}) =>
           SignatureCount(table[1], "20") = 2 /\ SignatureCount(parallel, "20") = 2

\* C10 as stated: for guards left and right the expression parser accepts,
\* the block with 10 -> 20 guarded by `left OR right` and the block with
\* two parallel transitions guarded by left and by right give every state
\* the same set of conjunctions, and two PathSignatures to state 20 when
\* left and right are different atomic guards.
OrEqualsParallel ==
  (table # None /\ fsm.transitions # <<>>) =>
    \A pair \in OrSides :
       (ParserSucceeds(pair[1]) /\ ParserSucceeds(pair[2]))
         => AgreesWithParallel(pair[1], pair[2])

\* C10 as amended: the same for guards left and right with balanced
\* parentheses of which the expression parser uses every token.
OrEqualsParallelWellFormed ==
  (table # None /\ fsm.transitions # <<>>) =>
    \A pair \in OrSides :
       (WellFormed(pair[1]) /\ WellFormed(pair[2]))
         => AgreesWithParallel(pair[1], pair[2])

\* C10 witness: "a = 1 OR b = 2" guards 10 -> 20, a transition 20 -> 30
\* follows, and the table gives two PathSignatures to state 20 and to
\* state 30.
OrEqualsParallelWellFormedWitness ==
  /\ table # None
  /\ Len(fsm.transitions) = 2
  /\ fsm.transitions[1].condition = OrGuard(AtomGuard(CondA), AtomGuard(CondB))
  /\ WellFormed(AtomGuard(CondA)) /\ WellFormed(AtomGuard(CondB))
  /\ SignatureCount(table[1], "20") = 2
  /\ SignatureCount(table[1], "30") = 2

-----------------------------------------------------------------------------
(* Normalising an expression tree                                          *)

\* the atomic conditions at the leaves of the trees that are normalised
DnfA == Condition(<<"A">>, OpEq, <<"1">>)
DnfB == Condition(<<"B">>, OpLt, <<"2">>)
DnfC == Condition(<<"C">>, OpEq, <<"3">>)
DnfAtoms == {DnfA, DnfB}

\* the most And, Or and Not nodes a normalised tree has
MaxNodes == 3

\* the trees And(l, r) and Or(l, r) with l from `lefts` and r from `rights`
Joined(lefts, rights) ==
  {And(l, r) : l \in lefts, r \in rights} \cup {Or(l, r) : l \in lefts, r \in rights}

RECURSIVE ExprsOfSize(_)
\* the trees over DnfAtoms with exactly k And, Or and Not nodes
ExprsOfSize(k) ==
  IF k = 0 THEN {Atomic(c) : c \in DnfAtoms}
  ELSE {Not(e) : e \in ExprsOfSize(k - 1)}
         \cup UNION {Joined(ExprsOfSize(i), ExprsOfSize(k - 1 - i)) : i \in 0..(k - 1)}

\* `(A = 1 OR B = 2) AND C = 3`
DistributedExpr ==
  And(Or(Atomic(DnfA), Atomic(Condition(<<"B">>, OpEq, <<"2">>))), Atomic(DnfC))

\* `NOT (A = 1 AND B < 2)`
DeMorganExpr == Not(And(Atomic(DnfA), Atomic(DnfB)))

\* the trees that are normalised: every tree of up to MaxNodes nodes over
\* A = 1 and B < 2, the two above, and the negation of an atomic condition
\* under each operator
ExprPool ==
  UNION {ExprsOfSize(k) : k \in 0..MaxNodes}
    \cup {DistributedExpr, DeMorganExpr}
    \cup {Not(Atomic(Condition(<<"a">>, operators[i], <<"1">>))) : i \in 1..Len(operators)}

DnfInit ==
  /\ fsm = NewFunctionBlock
  /\ paths = None /\ table = None /\ prev_table = None
  /\ IdleGuard /\ IdleMatcher
  /\ tokenized = None /\ atomic_cond = None /\ parser = None
  /\ bool_expr \in {Some(e) : e \in ExprPool}
  /\ normal_form = None /\ finder = None /\ unreachable = None

\* a call of BooleanExpr::to_dnf on the tree
ToDnf ==
  /\ bool_expr # None /\ normal_form = None
  /\ normal_form' = Some(to_dnf(bool_expr[1]))
  /\ UNCHANGED <<fsm, paths, table, prev_table, condition_str, parsed,
                 conjunction, formatted, runtime_vars, matched>>
  /\ UNCHANGED <<tokenized, atomic_cond, parser, bool_expr, finder, unreachable>>

DnfNext == ToDnf

\* one expression tree, normalised once
SpecDnf == DnfInit /\ [][DnfNext]_vars

\* the operator that holds exactly when op does not
Complement(op) ==
  IF op = OpEq THEN OpNe ELSE IF op = OpNe THEN OpEq
  ELSE IF op = OpLt THEN OpGe ELSE IF op = OpGe THEN OpLt
  ELSE IF op = OpLe THEN OpGt ELSE OpLe

RECURSIVE ReferenceDnf(_, _)
\* the reference normaliser: the DNF of e, or of its negation when
\* `negated`, pushing the negation down to the atomic conditions
ReferenceDnf(e, negated) ==
  IF e.kind = "Atomic"
  THEN <<<<IF negated
           THEN Condition(e.cond.variable, Complement(e.cond.operator), e.cond.value)
           ELSE e.cond>>>>
  ELSE IF e.kind = "Not" THEN ReferenceDnf(e.inner, ~negated)
  ELSE IF (e.kind = "Or") # negated
  THEN ReferenceDnf(e.left, negated) \o ReferenceDnf(e.right, negated)
  ELSE LET l == ReferenceDnf(e.left, negated)
           r == ReferenceDnf(e.right, negated)
       IN Flatten([i \in 1..Len(l) |-> [j \in 1..Len(r) |-> l[i] \o r[j]]])

\* C11: to_dnf returns the DNF of the reference normaliser for every tree:
\* an atomic gives one conjunction of it, Or puts the DNFs of its sides one
\* after the other, And combines every conjunction of the left with every
\* one of the right, and Not complements an atomic's operator, turns And
\* into Or and Or into And of the negated sides, and cancels a Not; so
\* `(A = 1 OR B = 2) AND C = 3` gives A = 1, C = 3 and B = 2, C = 3, and
\* `NOT (A = 1 AND B < 2)` gives A <> 1 and B >= 2.
DnfMatchesReference ==
  normal_form # None =>
    /\ normal_form[1] = ReferenceDnf(bool_expr[1], FALSE)
    /\ bool_expr[1] = DistributedExpr =>
          normal_form[1] = <<<<DnfA, DnfC>>,
                             <<Condition(<<"B">>, OpEq, <<"2">>), DnfC>>>>
    /\ bool_expr[1] = DeMorganExpr =>
          normal_form[1] = <<<<Condition(<<"A">>, OpNe, <<"1">>)>>,
                             <<Condition(<<"B">>, OpGe, <<"2">>)>>>>

\* C11 witness: a tree with a Not over an Or whose side is an And has been
\* normalised into more than one conjunction.
DnfMatchesReferenceWitness ==
  /\ normal_form # None
  /\ bool_expr[1].kind = "Not"
  /\ bool_expr[1].inner.kind = "Or"
  /\ bool_expr[1].inner.left.kind = "And"
  /\ Len(normal_form[1]) = 2

-----------------------------------------------------------------------------
(* The states the enumeration starts from                                  *)

\* the state ids of the blocks whose starting states are inferred: the two
\* the fallback names and two it does not
InitialIds == {"10", "100", "50", "60"}

\* the most transitions such a block is given
MaxLoops == 2

InitialNext ==
  \/ \E id \in InitialIds : AddState(id)
  \/ \E from \in InitialIds, to \in InitialIds :
       ExtractTransition(from, to, <<>>, MaxLoops)
  \/ FindAllPaths
  \/ fsm.states = <<>> /\ Generate(1)

\* blocks with and without a state free of incoming transitions,
\* enumerated, and the block without states, signed
SpecInitial == Init /\ [][InitialNext]_vars

\* the state ids of the block
BlockIds(f) == {f.states[i].id : i \in 1..Len(f.states)}

\* the states of the block that no transition leads to
NoIncoming(f) ==
  {id \in BlockIds(f) : \A t \in 1..Len(f.transitions) : f.transitions[t].to_state # id}

\* the states the traversals of the last enumeration started from: a
\* traversal records the path of its starting state alone before it moves
StartedFrom == {e[2][1].state : e \in EmittedPaths}

\* C12: the traversals start from exactly the states without an incoming
\* transition; when there is none they start from "100" alone if the block
\* has it, else from "10" alone if the block has it, else from the state
\* that was inserted first; a block without states gives no path and an
\* empty signature table.
InitialStateInference ==
  paths # None =>
    /\ StartedFrom =
         IF NoIncoming(fsm) # {} THEN NoIncoming(fsm)
         ELSE IF "100" \in BlockIds(fsm) THEN {"100"}
         ELSE IF "10" \in BlockIds(fsm) THEN {"10"}
         ELSE IF fsm.states # <<>> THEN {fsm.states[1].id}
         ELSE {}
    /\ fsm.states = <<>> =>
          /\ DOMAIN paths[1] = {}
          /\ table # None => table[1] = [panic |-> FALSE, signatures |-> <<>>]

\* C12 witness: every state of the enumerated block has an incoming
\* transition, "10" was inserted before "100", and the traversal started
\* from "100".
InitialStateInferenceWitness ==
  /\ paths # None
  /\ NoIncoming(fsm) = {}
  /\ Len(fsm.states) >= 2 /\ fsm.states[1].id = "10"
  /\ StartedFrom = {"100"}

-----------------------------------------------------------------------------
(* The number of source paths of a state                                   *)

\* the simple walks from a starting state of the block that end in the
\* state
WalksTo(f, state_id) == {w \in SimpleWalks(f) : w[Len(w)].state = state_id}

\* C13: for every state of a generated table paths_count is the number of
\* paths the enumerator emitted for the state, which is the number of
\* simple walks to it; neither the conjunctions an OR adds nor the ones
\* the merge drops change it.
PathsCountIsPathCount ==
  table # None =>
    \A i \in 1..Len(TableSignatures) :
       /\ TableSignatures[i].paths_count = Len(paths[1][TableSignatures[i].state_id])
       /\ TableSignatures[i].paths_count
            = Cardinality(WalksTo(fsm, TableSignatures[i].state_id))

\* C13 witness: a state reached by two parallel transitions with the same
\* guard, whose two PathSignatures the merge made one.
PathsCountIsPathCountWitness ==
  /\ table # None
  /\ Len(fsm.transitions) = 2
  /\ fsm.transitions[1] = fsm.transitions[2]
  /\ \E i \in 1..Len(TableSignatures) :
        /\ TableSignatures[i].paths_count = 2
        /\ Len(TableSignatures[i].path_signatures) = 1

-----------------------------------------------------------------------------
(* Failures of the guard pipeline                                          *)

\* C14: for every guard string the tokeniser takes every slice at
\* character boundaries and parse_transition_condition returns a DNF, at
\* worst the single empty conjunction; it never fails.
GuardPipelineTotal ==
  parsed # None =>
    /\ ~parsed[1].panic
    /\ parsed[1].dnf # <<>>

-----------------------------------------------------------------------------
(* The order of a generated table                                          *)

\* the state ids of the table, in its order
TableStateIds == [i \in 1..Len(TableSignatures) |-> TableSignatures[i].state_id]

\* C15: the states of a generated table are in the order in which the
\* block's states were inserted (those without a signature left out), and
\* the PathSignatures of every state are in strictly increasing path_id.
TableKeepsInsertionOrder ==
  table # None =>
    /\ TableStateIds
         = SelectSeq(StateKeys(fsm), LAMBDA id : id \in DOMAIN paths[1])
    /\ \A i \in 1..Len(TableSignatures) :
          \A k \in 1..(Len(TableSignatures[i].path_signatures) - 1) :
             TableSignatures[i].path_signatures[k].path_id
               < TableSignatures[i].path_signatures[k + 1].path_id

-----------------------------------------------------------------------------
(* Transitions on cycles                                                   *)

RECURSIVE ReachableFrom(_, _)
\* the states of the block that the transitions lead to from the states S,
\* those of S included
ReachableFrom(f, S) ==
  LET next == S \cup {f.transitions[t].to_state :
                        t \in {u \in 1..Len(f.transitions) : f.transitions[u].from_state \in S}}
  IN IF next = S THEN S ELSE ReachableFrom(f, next)

\* transition t (counted from 1) lies on a cycle: its source can be
\* reached from its target
OnCycle(f, t) ==
  f.transitions[t].from_state \in ReachableFrom(f, {f.transitions[t].to_state})

\* the source of transition t can be reached from a starting state
SourceReachable(f, t) ==
  f.transitions[t].from_state \in ReachableFrom(f, Range(starting_states(f)))

\* transition t is the arriving transition of a step of an emitted path
Covered(t) ==
  \E e \in EmittedPaths : \E i \in 1..Len(e[2]) : e[2][i].transition = Some(t - 1)

\* a simple walk from a starting state ends in the source of transition t
\* and does not visit its target
SimplyReachable(f, t) ==
  \E w \in SimpleWalks(f) :
     /\ w[Len(w)].state = f.transitions[t].from_state
     /\ \A i \in 1..Len(w) : w[i].state # f.transitions[t].to_state

-----------------------------------------------------------------------------
(* Tokens the expression parser does not expect                            *)

\* how many tokens of the kind the sequence holds
CountKind(toks, kind) == Cardinality({i \in 1..Len(toks) : toks[i].kind = kind})

\* the tokens hold a `(` whose `)` is missing
Unclosed(toks) == CountKind(toks, "LParen") > CountKind(toks, "RParen")

\* tokens are left over after a complete expression
LeftOver(toks) == parse(toks).expr # None /\ parse(toks).position < Len(toks)

\* C17: when the tokens of a guard hold a `(` without its `)` or tokens
\* are left over after a complete expression, the expression parser
\* returns nothing and parse_transition_condition returns what the
\* fallback parser makes of the guard string.
ParserRejectsUnexpected ==
  (/\ parsed # None /\ ~parsed[1].panic
   /\ \/ Unclosed(tokenize(condition_str).tokens)
      \/ LeftOver(tokenize(condition_str).tokens))
    => /\ parse(tokenize(condition_str).tokens).expr = None
       /\ parsed[1].dnf = parse_simple_condition(condition_str)

-----------------------------------------------------------------------------
(* Tokenising one guard                                                    *)

\* the pieces the guards with keywords inside words are written from
WordPieces ==
  {KwAND, KwOR, KwNOT, <<"x">>, <<"_">>, <<" ">>, <<"=", " ", "1">>}

\* the most pieces such a guard is written from
MaxWordPieces == 4

\* the guards with keywords inside and beside words
WordGuards ==
  {Flatten(ps) : ps \in UNION {[1..n -> WordPieces] : n \in 0..MaxWordPieces}}

\* the operands of the atomic conditions with parentheses: `x`, `2`,
\* `(x + 1)`, `(y + 1)` and `f(x)`
ParenOperands ==
  {<<"x">>, <<"2">>, <<"(", "x", " ", "+", " ", "1", ")">>,
   <<"(", "y", " ", "+", " ", "1", ")">>, <<"f", "(", "x", ")">>}

\* the atomic conditions `left = right` over these operands
ParenAtomics ==
  {l \o <<" ", "=", " ">> \o r : l \in ParenOperands, r \in ParenOperands}

\* the guards that are tokenised
TokenPool ==
  WordGuards \cup ParenAtomics
    \cup {g \o AndSeparator \o AtomGuard(CondB) : g \in ParenAtomics}

TokensInit ==
  /\ fsm = NewFunctionBlock
  /\ paths = None /\ table = None /\ prev_table = None
  /\ condition_str \in TokenPool
  /\ parsed = None
  /\ conjunction = <<>> /\ formatted = None
  /\ IdleMatcher /\ IdleStages

\* a call of Tokenizer::new(condition_str).tokenize()
Tokenize ==
  /\ tokenized = None
  /\ tokenized' = Some(tokenize(condition_str))
  /\ UNCHANGED <<fsm, paths, table, prev_table, condition_str, parsed,
                 conjunction, formatted, runtime_vars, matched>>
  /\ UNCHANGED <<atomic_cond, parser, bool_expr, normal_form, finder, unreachable>>

TokensNext == Tokenize \/ ParseGuard

\* one guard, tokenised and parsed
SpecTokens == TokensInit /\ [][TokensNext]_vars

\* a character of an identifier
IsWordChar(c) == is_alphanumeric(c) \/ c = "_"

\* s[i..j] is a maximal run of identifier characters of s
IsWordAt(s, i, j) ==
  /\ i <= j
  /\ \A k \in i..j : IsWordChar(s[k])
  /\ i = 1 \/ ~IsWordChar(s[i - 1])
  /\ j = Len(s) \/ ~IsWordChar(s[j + 1])

\* the token holds the word whole
HoldsWord(token, word) ==
  /\ token.kind = "Condition"
  /\ \E i \in 1..Len(token.text), j \in 1..Len(token.text) :
        IsWordAt(token.text, i, j) /\ SubSeq(token.text, i, j) = word

\* C18: the tokeniser emits no more AND, OR and NOT tokens than the guard
\* has words that are that keyword, and every other word of the guard, the
\* ones that contain the letters of a keyword included, is whole inside
\* one atomic-condition token.
KeywordsAreWholeWords ==
  (tokenized # None /\ ~tokenized[1].panic) =>
    LET toks == tokenized[1].tokens
        spans == {<<i, j>> \in (1..Len(condition_str)) \X (1..Len(condition_str)) :
                    IsWordAt(condition_str, i, j)}
        WordsThatAre(kw) ==
          Cardinality({sp \in spans : SubSeq(condition_str, sp[1], sp[2]) = kw})
    IN /\ CountKind(toks, "And") <= WordsThatAre(KwAND)
       /\ CountKind(toks, "Or") <= WordsThatAre(KwOR)
       /\ CountKind(toks, "Not") <= WordsThatAre(KwNOT)
       /\ \A sp \in spans :
             SubSeq(condition_str, sp[1], sp[2]) \notin {KwAND, KwOR, KwNOT}
               => \E t \in 1..Len(toks) :
                     HoldsWord(toks[t], SubSeq(condition_str, sp[1], sp[2]))

\* C19: an atomic condition whose operands hold balanced parentheses is
\* one atomic-condition token, alone or before ` AND b = 2`, and the guard
\* of it alone parses to one atomic condition with the operator `=`.
ParenthesesStayInAtomic ==
  /\ (tokenized # None /\ condition_str \in ParenAtomics) =>
        tokenized[1] = [panic |-> FALSE, tokens |-> <<TokCondition(condition_str)>>]
  /\ (tokenized # None /\ condition_str \notin WordGuards
        /\ condition_str \notin ParenAtomics) =>
        /\ ~tokenized[1].panic
        /\ [i \in 1..Len(tokenized[1].tokens) |-> tokenized[1].tokens[i].kind]
             = <<"Condition", "And", "Condition">>
  /\ (parsed # None /\ condition_str \in ParenAtomics) =>
        /\ ~parsed[1].panic
        /\ Len(parsed[1].dnf) = 1 /\ Len(parsed[1].dnf[1]) = 1
        /\ parsed[1].dnf[1][1].operator = OpEq

-----------------------------------------------------------------------------
(* Parsing one atomic condition                                            *)

\* the pieces the atomic texts are written from: operands, parentheses and
\* the six operators
AtomicPieces ==
  {<<"a">>, <<" ", "1", " ">>, <<"(", "1", ")">>, <<"(", "a">>, <<")">>}
    \cup Range(operators)

\* the most pieces an atomic text is written from
MaxAtomicPieces == 3

\* the atomic texts that are parsed
AtomicTexts ==
  {Flatten(ps) : ps \in UNION {[1..n -> AtomicPieces] : n \in 0..MaxAtomicPieces}}

AtomicInit ==
  /\ fsm = NewFunctionBlock
  /\ paths = None /\ table = None /\ prev_table = None
  /\ condition_str \in AtomicTexts
  /\ parsed = None
  /\ conjunction = <<>> /\ formatted = None
  /\ IdleMatcher /\ IdleStages

\* a call of parse_atomic_condition_str on the text
ParseAtomic ==
  /\ atomic_cond = None
  /\ atomic_cond' = Some(parse_atomic_condition_str(condition_str))
  /\ UNCHANGED <<fsm, paths, table, prev_table, condition_str, parsed,
                 conjunction, formatted, runtime_vars, matched>>
  /\ UNCHANGED <<tokenized, parser, bool_expr, normal_form, finder, unreachable>>

AtomicNext == ParseAtomic

\* one atomic text, parsed once
SpecAtomic == AtomicInit /\ [][AtomicNext]_vars

\* the text without the blanks around it and without the parentheses
\* around all of it
AtomicBody(text) ==
  LET t == trim(text) IN
  IF Len(t) >= 2 /\ t[1] = "(" /\ t[Len(t)] = ")" THEN SubSeq(t, 2, Len(t) - 1) ELSE t

\* the six operators in the order <=, >=, <>, =, <, >
ListedOperators ==
  <<<<"<", "=">>, <<">", "=">>, <<"<", ">">>, <<"=">>, <<"<">>, <<">">>>>

\* the operator op occurs in the text at character k
OccursAt(text, op, k) ==
  k + Len(op) - 1 <= Len(text) /\ SubSeq(text, k, k + Len(op) - 1) = op

\* the characters of the text at which some operator occurs
OperatorPositions(text) ==
  {k \in 1..Len(text) : \E i \in 1..Len(ListedOperators) : OccursAt(text, ListedOperators[i], k)}

\* the least number of a non-empty set of numbers
Least(S) == CHOOSE k \in S : \A j \in S : k <= j

\* the longest operator that occurs in the text at character k
LongestAt(text, k) ==
  CHOOSE op \in Range(ListedOperators) :
     /\ OccursAt(text, op, k)
     /\ \A other \in Range(ListedOperators) : OccursAt(text, other, k) => Len(other) <= Len(op)

\* the first operator, in the order of the list, that occurs in the text
FirstListed(text) ==
  ListedOperators[Least({i \in 1..Len(ListedOperators) :
                     \E k \in 1..Len(text) : OccursAt(text, ListedOperators[i], k)})]

\* the atomic condition of the text split at character k by the operator
\* op: the text before it and the text after it without the blanks around
\* them, the value without one pair of parentheses around it
SplitAt(text, op, k) ==
  LET value == trim(SubSeq(text, k + Len(op), Len(text))) IN
  Condition(trim(SubSeq(text, 1, k - 1)), op,
            IF Len(value) >= 2 /\ value[1] = "(" /\ value[Len(value)] = ")"
            THEN trim(SubSeq(value, 2, Len(value) - 1)) ELSE value)

Wrapped(t) ==
  /\ Len(t) >= 2 /\ t[1] = "(" /\ t[Len(t)] = ")"
  /\ \A k \in 1..(Len(t) - 1) :
        Cardinality({i \in 1..k : t[i] = "("}) > Cardinality({i \in 1..k : t[i] = ")"})

\* the text without the blanks around it, and without its first and last
\* character when they are one pair of parentheses
MatchedBody(text) ==
  LET t == trim(text) IN IF Wrapped(t) THEN SubSeq(t, 2, Len(t) - 1) ELSE t

\* the atomic condition of the text split at character k by the operator
\* op, the value without its first and last character when they are one pair
\* of parentheses
MatchedSplitAt(text, op, k) ==
  LET value == trim(SubSeq(text, k + Len(op), Len(text))) IN
  Condition(trim(SubSeq(text, 1, k - 1)), op,
            IF Wrapped(value) THEN trim(SubSeq(value, 2, Len(value) - 1)) ELSE value)

\* C21: the atomic parser cuts the first and the last character off the
\* text, and off the value, only when they are one pair of parentheses, the
\* "(" closed by the ")"; a text such as "(1)=(1)" keeps its parentheses.
StripsOnlyMatchedParentheses ==
  atomic_cond # None =>
    LET body == MatchedBody(condition_str) IN
    atomic_cond[1] =
      IF OperatorPositions(body) = {} THEN None
      ELSE Some(MatchedSplitAt(body, FirstListed(body),
                  Least({k \in 1..Len(body) : OccursAt(body, FirstListed(body), k)})))

-----------------------------------------------------------------------------
(* Precedence of the expression parser                                     *)

\* the tokens the parsed sequences are written from
ParserAlphabet ==
  {TokCondition(AtomGuard(CondA)), TokCondition(AtomGuard(CondB)),
   TokAnd, TokOr, TokNot, TokLParen, TokRParen}

\* the most tokens of a parsed sequence
MaxTokens == 5

CondC == Condition(<<"c">>, OpEq, <<"3">>)

\* `(a = 1 OR b = 2) AND c = 3`
GroupedTokens ==
  <<TokLParen, TokCondition(AtomGuard(CondA)), TokOr, TokCondition(AtomGuard(CondB)),
    TokRParen, TokAnd, TokCondition(AtomGuard(CondC))>>

\* the token sequences that are parsed
ParserPool ==
  UNION {[1..n -> ParserAlphabet] : n \in 0..MaxTokens} \cup {GroupedTokens}

ParserInit ==
  /\ fsm = NewFunctionBlock
  /\ paths = None /\ table = None /\ prev_table = None
  /\ IdleGuard /\ IdleMatcher
  /\ tokenized \in {Some([panic |-> FALSE, tokens |-> ts]) : ts \in ParserPool}
  /\ atomic_cond = None /\ parser = None /\ bool_expr = None /\ normal_form = None
  /\ finder = None /\ unreachable = None

\* ExpressionParser::new(tokens).parse()
ParseTokens ==
  /\ tokenized # None /\ parser = None
  /\ parser' = Some(parse(tokenized[1].tokens))
  /\ UNCHANGED <<fsm, paths, table, prev_table, condition_str, parsed,
                 conjunction, formatted, runtime_vars, matched>>
  /\ UNCHANGED <<tokenized, atomic_cond, bool_expr, normal_form, finder, unreachable>>

ParserNext == ParseTokens

\* one token sequence, parsed once
SpecParser == ParserInit /\ [][ParserNext]_vars

\* the tokens of ts that are inside no parentheses
TopLevel(ts, kind) ==
  {k \in 1..Len(ts) :
     /\ ts[k].kind = kind
     /\ CountKind(SubSeq(ts, 1, k), "LParen") = CountKind(SubSeq(ts, 1, k), "RParen")
     /\ \A j \in 1..k :
          CountKind(SubSeq(ts, 1, j), "LParen") >= CountKind(SubSeq(ts, 1, j), "RParen")}

\* the greatest number of a non-empty set of numbers
Greatest(S) == CHOOSE k \in S : \A j \in S : j <= k

\* ts is one group: its first token is a "(" that its last token closes
Grouped(ts) ==
  /\ Len(ts) >= 2 /\ ts[1].kind = "LParen" /\ ts[Len(ts)].kind = "RParen"
  /\ \A k \in 1..(Len(ts) - 1) :
        CountKind(SubSeq(ts, 1, k), "LParen") > CountKind(SubSeq(ts, 1, k), "RParen")

RECURSIVE Reading(_)
\* The tree a token sequence stands for when OR binds weakest, then AND,
\* then NOT, AND and OR group to the left and a group in parentheses is one
\* operand; None for a sequence that stands for no tree.
Reading(ts) ==
  LET Both(kind, k) ==
        LET l == Reading(SubSeq(ts, 1, k - 1))
            r == Reading(SubSeq(ts, k + 1, Len(ts)))
        IN IF l = None \/ r = None THEN None
           ELSE Some(IF kind = "Or" THEN Or(l[1], r[1]) ELSE And(l[1], r[1]))
      Operand(us) ==
        IF Len(us) = 1 /\ us[1].kind = "Condition"
        THEN LET cond == parse_atomic_condition_str(us[1].text) IN
             IF cond = None THEN None ELSE Some(Atomic(cond[1]))
        ELSE IF Grouped(us) THEN Reading(SubSeq(us, 2, Len(us) - 1))
        ELSE None
  IN IF TopLevel(ts, "Or") # {} THEN Both("Or", Greatest(TopLevel(ts, "Or")))
     ELSE IF TopLevel(ts, "And") # {} THEN Both("And", Greatest(TopLevel(ts, "And")))
     ELSE IF ts # <<>> /\ ts[1].kind = "Not"
     THEN LET inner == Operand(Tail(ts)) IN
          IF inner = None THEN None ELSE Some(Not(inner[1]))
     ELSE Operand(ts)

\* ts without its token k
Without(ts, k) == SubSeq(ts, 1, k - 1) \o SubSeq(ts, k + 1, Len(ts))

\* ts stands for a tree once the second of two NOTs in a row is taken out
DoubledNot(ts) ==
  \E k \in 2..Len(ts) :
     /\ ts[k - 1].kind = "Not" /\ ts[k].kind = "Not"
     /\ Reading(Without(ts, k)) # None

\* C22: the expression parser reads a well-formed token sequence with NOT
\* binding before AND and AND before OR, AND and OR grouping to the left
\* and parentheses overriding, and uses every token; it fails on a sequence
\* that is well formed but for a second NOT after a NOT.
ParserPrecedence ==
  parser # None =>
    LET ts == tokenized[1].tokens
        a == Atomic(CondA)
        b == Atomic(CondB)
    IN /\ Reading(ts) # None =>
            parser[1] = [expr |-> Reading(ts), position |-> Len(ts)]
       /\ DoubledNot(ts) => parser[1].expr = None
       /\ ts = <<TokCondition(AtomGuard(CondA)), TokOr, TokCondition(AtomGuard(CondB)),
                 TokAnd, TokCondition(AtomGuard(CondA))>>
            => parser[1].expr = Some(Or(a, And(b, a)))
       /\ ts = <<TokNot, TokCondition(AtomGuard(CondA)), TokAnd,
                 TokCondition(AtomGuard(CondB))>>
            => parser[1].expr = Some(And(Not(a), b))
       /\ ts = GroupedTokens => parser[1].expr = Some(And(Or(a, b), Atomic(CondC)))
       /\ ts = <<TokNot, TokNot, TokCondition(AtomGuard(CondA))>>
            => parser[1].expr = None

\* C22 witness: `a = 1 OR b = 2 AND a = 1` has been parsed into an Or whose
\* right side is an And.
ParserPrecedenceWitness ==
  /\ parser # None /\ parser[1].expr # None
  /\ Len(tokenized[1].tokens) = 5
  /\ tokenized[1].tokens[2].kind = "Or" /\ tokenized[1].tokens[4].kind = "And"
  /\ parser[1].expr[1].kind = "Or"
  /\ parser[1].expr[1].right.kind = "And"

-----------------------------------------------------------------------------
(* The fallback parser                                                     *)

\* the expression parser was called on the tokens of the guard and returned
\* None
ParserReturnsNothing(s) ==
  /\ s # <<>> /\ s # NoCheck
  /\ LET toks == tokenize(s) IN
     ~toks.panic /\ toks.tokens # <<>> /\ parse(toks.tokens).expr = None

\* the piece holds one of the six operators
HasOperator(piece) == OperatorPositions(piece) # {}

\* C23: when the expression parser returns None for a guard,
\* parse_transition_condition returns one conjunction: the atomic
\* conditions of the pieces between the " AND "s of the guard that hold an
\* operator, in the order of the pieces.
FallbackSimpleParser ==
  (parsed # None /\ ParserReturnsNothing(condition_str)) =>
    LET kept == SelectSeq(split(condition_str, AndSeparator), HasOperator) IN
    /\ ~parsed[1].panic
    /\ parsed[1].dnf =
         <<[i \in 1..Len(kept) |-> parse_atomic_condition_str(kept[i])[1]]>>

\* C23 witness: the fallback has parsed a guard of two pieces, the first
\* without an operator, and returned the atomic condition of the second.
FallbackSimpleParserWitness ==
  /\ parsed # None /\ ParserReturnsNothing(condition_str)
  /\ LET pieces == split(condition_str, AndSeparator) IN
     /\ Len(pieces) = 2
     /\ ~HasOperator(pieces[1]) /\ HasOperator(pieces[2])
     /\ Len(parsed[1].dnf) = 1 /\ Len(parsed[1].dnf[1]) = 1

-----------------------------------------------------------------------------
(* Guards that are empty or "No Check"                                     *)

\* fsm.add_transition(Transition::new(from, to, condition)), the call the
\* tests build their blocks with: the condition is recorded as it is given
AddTransition(from, to, condition, max) ==
  /\ Building
  /\ Len(fsm.transitions) < max
  /\ fsm' = add_transition(fsm, NewTransition(from, to, condition))
  /\ UNCHANGED <<paths, table, prev_table, condition_str, parsed,
                 conjunction, formatted, runtime_vars, matched>>
  /\ UNCHANGED stage_vars

\* the transitions the extractor gives these blocks: 10 -> 20 without a
\* condition, 20 -> 30 without one or under "a = 1 OR b = 2"; by repetition,
\* parallel transitions
VacuousPool ==
  {<<"10", "20", <<>>>>, <<"20", "30", <<>>>>,
   <<"20", "30", OrGuard(AtomGuard(CondA), AtomGuard(CondB))>>}

\* the transitions added to them with an empty condition
VacuousEdges == {<<"10", "20">>, <<"20", "30">>}

VacuousNext ==
  \/ \E t \in VacuousPool : ExtractTransition(t[1], t[2], t[3], MaxGuarded)
  \/ \E edge \in VacuousEdges : AddTransition(edge[1], edge[2], <<>>, MaxGuarded)
  \/ Generate(1)

\* blocks with unguarded transitions, signed once
SpecVacuous == SigInit /\ [][VacuousNext]_vars

\* the guard is empty or the text "No Check"
Vacuous(condition) == condition = <<>> \/ condition = NoCheck

\* every conjunction of `left` followed by every conjunction of `right`,
\* the conjunctions of `left` in turn
Combined(left, right) ==
  [n \in 1..(Len(left) * Len(right)) |->
     left[((n - 1) \div Len(right)) + 1] \o right[((n - 1) % Len(right)) + 1]]

RECURSIVE Composed(_, _)
\* [[]] combined with the first k DNFs of the sequence, one after another
Composed(dnfs, k) ==
  IF k = 0 THEN <<<<>>>>
  ELSE CHOOSE result \in {Combined(before, dnfs[k]) : before \in {Composed(dnfs, k - 1)}} :
         TRUE

\* C24: an empty or "No Check" guard gives the DNF [[]]; the conjunctions
\* of a path are [[]] combined with the DNF of each of its transitions in
\* path order, and are the same with the empty and "No Check" guards left
\* out; a path with no other guards (or with no transition) gives the state
\* one PathSignature without conditions, which formats as "[initial]" and
\* matches every assignment.
VacuousGuardsAddNothing ==
  (table # None /\ ~table[1].panic) =>
    \A e \in EmittedPaths :
       LET ts == PathTransitions(fsm, e[2])
           guarded == SelectSeq(ts, LAMBDA t : ~Vacuous(t.condition))
           sig == get_signature(table[1], e[1])[1]
           empties == {k \in 1..Len(sig.path_signatures) :
                         sig.path_signatures[k].conditions = <<>>}
       IN \A dnfs \in {[i \in 1..Len(ts) |->
                          parse_transition_condition(ts[i].condition).dnf]},
             extracted \in {extract_conditions_from_path(fsm, e[2])} :
            /\ \A i \in 1..Len(ts) : Vacuous(ts[i].condition) => dnfs[i] = <<<<>>>>
            /\ extracted = Composed(dnfs, Len(dnfs))
            /\ LET kept == SelectSeq([i \in 1..Len(ts) |-> [guard |-> ts[i].condition,
                                                             dnf |-> dnfs[i]]],
                                    LAMBDA t : ~Vacuous(t.guard))
               IN extracted = Composed([i \in 1..Len(kept) |-> kept[i].dnf], Len(kept))
            /\ guarded = <<>> =>
                 /\ extracted = <<<<>>>>
                 /\ Cardinality(empties) = 1
                 /\ \A k \in empties :
                      /\ format_conditions(sig.path_signatures[k].conditions) = Initial
                      /\ \A rvars \in Assignments :
                           /\ matches(sig.path_signatures[k].conditions, rvars)
                           /\ matches_any(sig, rvars)

\* C24 witness: a signed block whose path 10 -> 20 -> 30 takes a transition
\* with an empty guard and then one guarded by "a = 1 OR b = 2", and whose
\* state 20 is reached by the unguarded transition only.
VacuousGuardsAddNothingWitness ==
  /\ table # None /\ ~table[1].panic
  /\ Len(fsm.transitions) = 2
  /\ fsm.transitions[1].from_state = "10" /\ fsm.transitions[1].to_state = "20"
  /\ fsm.transitions[1].condition = <<>>
  /\ fsm.transitions[2].from_state = "20" /\ fsm.transitions[2].to_state = "30"
  /\ fsm.transitions[2].condition = OrGuard(AtomGuard(CondA), AtomGuard(CondB))
  /\ Len(get_signature(table[1], "30")[1].path_signatures) = 2
  /\ Len(get_signature(table[1], "20")[1].path_signatures) = 1
  /\ get_signature(table[1], "20")[1].path_signatures[1].conditions = <<>>

-----------------------------------------------------------------------------
(* The traversal, call by call                                             *)

\* The find_all_paths call under way is a record: `starting` and `started`
\* are the starting states and the number of them the loop has taken;
\* `frames` are the dfs calls that have not returned, the innermost last,
\* each with its current_state, the trans_idx its loop is at and, as
\* `entered`, the visited set and current_path it was called with;
\* `visited`, `current_path` and `paths_to_states` are the three &mut
\* arguments; `pc` is "loop" inside the loop of the innermost call and
\* "returned" when a call has just returned, `returned` being its frame.

\* the first lines of dfs: the path is recorded for the state and the state
\* is marked visited
EnterDfs(w, state) ==
  [w EXCEPT !.paths_to_states = PushPath(@, state, w.current_path),
            !.visited = @ \cup {state},
            !.frames = Append(@, [current_state |-> state, trans_idx |-> 0,
                                  entered |-> [visited |-> w.visited,
                                               current_path |-> w.current_path]]),
            !.pc = "loop"]

\* the innermost dfs call
TopFrame == finder[1].frames[Len(finder[1].frames)]

\* find_all_paths up to its loop
FindStart ==
  /\ Building
  /\ finder' = Some([starting |-> starting_states(fsm), started |-> 0,
                     frames |-> <<>>, visited |-> {}, current_path |-> <<>>,
                     paths_to_states |-> <<>>, pc |-> "returned",
                     returned |-> None])
  /\ UNCHANGED <<fsm, paths, table, prev_table, condition_str, parsed,
                 conjunction, formatted, runtime_vars, matched>>
  /\ UNCHANGED <<tokenized, atomic_cond, parser, bool_expr, normal_form, unreachable>>
\* an iteration of `for initial in starting_states`: a fresh visited set,
\* a path of the starting state alone, and the call of dfs
DfsRoot ==
  /\ finder # None /\ paths = None
  /\ finder[1].frames = <<>>
  /\ finder[1].started < Len(finder[1].starting)
  /\ LET initial == finder[1].starting[finder[1].started + 1] IN
     finder' = Some(EnterDfs([finder[1] EXCEPT
                                !.started = @ + 1,
                                !.visited = {},
                                !.current_path =
                                   <<[state |-> initial, transition |-> None]>>],
                             initial))
  /\ UNCHANGED <<fsm, paths, table, prev_table, condition_str, parsed,
                 conjunction, formatted, runtime_vars, matched>>
  /\ UNCHANGED <<tokenized, atomic_cond, parser, bool_expr, normal_form, unreachable>>
\* an iteration of the loop of dfs that takes the transition: its target
\* is pushed on the path and dfs is called on it
DfsTake ==
  /\ finder # None /\ finder[1].frames # <<>> /\ finder[1].pc = "loop"
  /\ TopFrame.trans_idx < Len(fsm.transitions)
  /\ LET transition == fsm.transitions[TopFrame.trans_idx + 1]
         next_state == transition.to_state
     IN /\ transition.from_state = TopFrame.current_state
        /\ next_state \notin finder[1].visited
        /\ finder' = Some(EnterDfs([finder[1] EXCEPT
                                      !.current_path =
                                         Append(@, [state |-> next_state,
                                                    transition |-> Some(TopFrame.trans_idx)])],
                                   next_state))
  /\ UNCHANGED <<fsm, paths, table, prev_table, condition_str, parsed,
                 conjunction, formatted, runtime_vars, matched>>
  /\ UNCHANGED <<tokenized, atomic_cond, parser, bool_expr, normal_form, unreachable>>
\* an iteration of the loop of dfs that does not take the transition
DfsSkip ==
  /\ finder # None /\ finder[1].frames # <<>> /\ finder[1].pc = "loop"
  /\ TopFrame.trans_idx < Len(fsm.transitions)
  /\ LET transition == fsm.transitions[TopFrame.trans_idx + 1] IN
     \/ transition.from_state # TopFrame.current_state
     \/ transition.to_state \in finder[1].visited
  /\ finder' = Some([finder[1] EXCEPT !.frames[Len(finder[1].frames)].trans_idx = @ + 1])
  /\ UNCHANGED <<fsm, paths, table, prev_table, condition_str, parsed,
                 conjunction, formatted, runtime_vars, matched>>
  /\ UNCHANGED <<tokenized, atomic_cond, parser, bool_expr, normal_form, unreachable>>
\* the return of dfs without `visited.remove(current_state)`
DfsReturnKeepsMark ==
  /\ finder # None /\ finder[1].frames # <<>> /\ finder[1].pc = "loop"
  /\ TopFrame.trans_idx >= Len(fsm.transitions)
  /\ finder' = Some([finder[1] EXCEPT
                       !.frames = SubSeq(@, 1, Len(@) - 1),
                       !.pc = "returned",
                       !.returned = Some(TopFrame)])
  /\ UNCHANGED <<fsm, paths, table, prev_table, condition_str, parsed,
                 conjunction, formatted, runtime_vars, matched>>
  /\ UNCHANGED <<tokenized, atomic_cond, parser, bool_expr, normal_form, unreachable>>
\* the end of the loop of dfs: the state is unmarked and the call returns
DfsReturn ==
  /\ finder # None /\ finder[1].frames # <<>> /\ finder[1].pc = "loop"
  /\ TopFrame.trans_idx >= Len(fsm.transitions)
  /\ finder' = Some([finder[1] EXCEPT
                       !.visited = @ \ {TopFrame.current_state},
                       !.frames = SubSeq(@, 1, Len(@) - 1),
                       !.pc = "returned",
                       !.returned = Some(TopFrame)])
  /\ UNCHANGED <<fsm, paths, table, prev_table, condition_str, parsed,
                 conjunction, formatted, runtime_vars, matched>>
  /\ UNCHANGED <<tokenized, atomic_cond, parser, bool_expr, normal_form, unreachable>>
\* the caller after the call: `current_path.pop()` and the next iteration
DfsResume ==
  /\ finder # None /\ finder[1].frames # <<>> /\ finder[1].pc = "returned"
  /\ finder' = Some([finder[1] EXCEPT
                       !.current_path = SubSeq(@, 1, Len(@) - 1),
                       !.frames[Len(finder[1].frames)].trans_idx = @ + 1,
                       !.pc = "loop"])
  /\ UNCHANGED <<fsm, paths, table, prev_table, condition_str, parsed,
                 conjunction, formatted, runtime_vars, matched>>
  /\ UNCHANGED <<tokenized, atomic_cond, parser, bool_expr, normal_form, unreachable>>
\* the end of find_all_paths: paths_to_states is returned
FindEnd ==
  /\ finder # None /\ paths = None
  /\ finder[1].frames = <<>>
  /\ finder[1].started = Len(finder[1].starting)
  /\ paths' = Some(finder[1].paths_to_states)
  /\ UNCHANGED finder
  /\ UNCHANGED <<fsm, table, prev_table, condition_str, parsed,
                 conjunction, formatted, runtime_vars, matched>>
  /\ UNCHANGED <<tokenized, atomic_cond, parser, bool_expr, normal_form, unreachable>>

DfsNext ==
  \/ \E from \in StateIds, to \in StateIds :
       ExtractTransition(from, to, <<>>, MaxTransitions)
  \/ FindStart
  \/ DfsRoot
  \/ DfsTake
  \/ DfsSkip
  \/ DfsReturn
  \/ DfsResume
  \/ FindEnd

\* blocks over the states 10, 20 and 30, traversed call by call
SpecDfs == SigInit /\ [][DfsNext]_vars

\* the state ids on a path
PathStates(path) == {path[i].state : i \in 1..Len(path)}

\* the paths of the entry of sid that start from the state `initial`
PathsStartedFrom(paths_to_states, sid, initial) ==
  IF sid \in DOMAIN paths_to_states
  THEN SelectSeq(paths_to_states[sid], LAMBDA path : path[1].state = initial)
  ELSE <<>>

\* C25: every dfs call is entered with a visited set that holds the states
\* of current_path but the current one, and returns with the visited set
\* and the current_path it was entered with; the paths find_all_paths
\* returns from a starting state are those of a traversal from that state
\* alone.
DfsBookkeeping ==
  /\ finder # None =>
       /\ \A k \in 1..Len(finder[1].frames) :
            LET frame == finder[1].frames[k] IN
            /\ frame.entered.visited =
                 PathStates(frame.entered.current_path) \ {frame.current_state}
            /\ frame.current_state =
                 frame.entered.current_path[Len(frame.entered.current_path)].state
       /\ (finder[1].pc = "returned" /\ finder[1].returned # None) =>
            /\ finder[1].visited = finder[1].returned[1].entered.visited
            /\ finder[1].current_path = finder[1].returned[1].entered.current_path
  /\ (finder # None /\ paths # None) =>
       /\ paths[1] = find_all_paths(fsm)
       /\ \A i \in 1..Len(finder[1].starting) :
            LET initial == finder[1].starting[i]
                alone == dfs(fsm, initial, {},
                             <<[state |-> initial, transition |-> None]>>,
                             <<>>).paths_to_states
            IN \A sid \in StateIds :
                 PathsStartedFrom(paths[1], sid, initial)
                   = PathsStartedFrom(alone, sid, initial)

\* C25 witness: a dfs call two transitions deep has returned, in a block
\* in which the state it was called on can be reached by another branch as
\* well.
DfsBookkeepingWitness ==
  /\ finder # None
  /\ finder[1].pc = "returned" /\ finder[1].returned # None
  /\ Len(finder[1].returned[1].entered.current_path) = 3
  /\ \E t \in 1..Len(fsm.transitions) :
       /\ fsm.transitions[t].to_state = finder[1].returned[1].current_state
       /\ fsm.transitions[t].from_state = finder[1].current_path[1].state

-----------------------------------------------------------------------------
(* The signatures of starting states                                       *)

StartInit ==
  /\ fsm \in {TwoStates, ThreeStates}
  /\ paths = None /\ table = None /\ prev_table = None
  /\ IdleStages
  /\ IdleGuard /\ IdleMatcher

StartNext ==
  \/ \E from \in StateIds, to \in StateIds, g \in {AtomGuard(c) : c \in SigAtoms} :
       ExtractTransition(from, to, g, MaxGuarded)
  \/ Generate(1)

\* blocks of two or three states with atomic guards on any transitions,
\* cycles and self-loops included, signed once
SpecStart == StartInit /\ [][StartNext]_vars

\* C26: every StateSignature of a generated table has paths_count >= 1 and
\* at least one PathSignature, so that matches_any asks its PathSignatures,
\* and the StateSignature of a state the traversal starts from has exactly
\* one PathSignature, without conditions.
SignaturesNeverEmpty ==
  (table # None /\ ~table[1].panic) =>
    \A i \in 1..Len(TableSignatures) :
       LET sig == TableSignatures[i] IN
       /\ sig.paths_count >= 1
       /\ Len(sig.path_signatures) >= 1
       /\ \A rvars \in Assignments :
            matches_any(sig, rvars) =
              \E k \in 1..Len(sig.path_signatures) :
                 matches(sig.path_signatures[k].conditions, rvars)
       /\ sig.state_id \in Range(starting_states(fsm)) =>
            /\ Len(sig.path_signatures) = 1
            /\ sig.path_signatures[1].conditions = <<>>

\* C26 witness: the signed block is the cycle 10 -> 20 -> 10 under guards:
\* the traversal starts from 10 for want of a state without incoming
\* transitions, and 10 has one PathSignature.
SignaturesNeverEmptyWitness ==
  /\ table # None /\ ~table[1].panic
  /\ find_initial_states(fsm) = <<>>
  /\ Len(fsm.states) = 2 /\ Len(fsm.transitions) = 2
  /\ fsm.transitions[1].from_state = "10" /\ fsm.transitions[1].to_state = "20"
  /\ fsm.transitions[2].from_state = "20" /\ fsm.transitions[2].to_state = "10"
  /\ Len(get_signature(table[1], "10")[1].path_signatures) = 1
  /\ Len(get_signature(table[1], "20")[1].path_signatures) = 1

-----------------------------------------------------------------------------
(* The reachability analysis: analysis/validator.rs                        *)

\* the queue of find_unreachable_states before its loop: the states without
\* incoming transitions or, when there are none, "100" or the first state
validator_queue(f) ==
  LET initial_states == find_initial_states(f) IN
  IF initial_states = <<>>
  THEN IF contains_key(f, "100") THEN <<"100">>
       ELSE IF Len(f.states) > 0 THEN <<f.states[1].id>>
       ELSE <<>>
  ELSE initial_states

RECURSIVE validator_bfs(_, _, _)
\* the `while let Some(state_id) = queue.pop_front()` loop of
\* find_unreachable_states: the set `reachable` after it
validator_bfs(f, queue, reachable) ==
  IF queue = <<>> THEN reachable
  ELSE LET state_id == Head(queue) IN
       IF state_id \in reachable THEN validator_bfs(f, Tail(queue), reachable)
       ELSE validator_bfs(f,
              Tail(queue) \o
                [i \in 1..Len(SelectSeq(f.transitions,
                                        LAMBDA t : t.from_state = state_id)) |->
                   SelectSeq(f.transitions,
                             LAMBDA t : t.from_state = state_id)[i].to_state],
              reachable \cup {state_id})

\* FsmValidator::find_unreachable_states
find_unreachable_states(f) ==
  IF f.states = <<>> THEN <<>>
  ELSE SelectSeq(StateKeys(f),
                 LAMBDA id : id \notin validator_bfs(f, validator_queue(f), {}))

\* the state ids the analysed blocks are built from
ReachIds == {"10", "50", "100"}

\* a call of FsmValidator::find_unreachable_states on the block
FindUnreachable ==
  /\ unreachable = None
  /\ table # None
  /\ unreachable' = Some(find_unreachable_states(fsm))
  /\ UNCHANGED <<fsm, paths, table, prev_table, condition_str, parsed,
                 conjunction, formatted, runtime_vars, matched>>
  /\ UNCHANGED <<tokenized, atomic_cond, parser, bool_expr, normal_form, finder>>

ReachNext ==
  \/ \E id \in ReachIds : AddState(id)
  \/ \E from \in ReachIds, to \in ReachIds :
       ExtractTransition(from, to, <<>>, MaxLoops)
  \/ Generate(1)
  \/ FindUnreachable

\* blocks over the states 10, 50 and 100, signed and analysed for
\* reachability
SpecReach == Init /\ [][ReachNext]_vars

\* C27: the states with a signature in the generated table are the states
\* of the block that find_unreachable_states does not report.
ReachabilityAgrees ==
  (unreachable # None /\ table # None /\ ~table[1].panic) =>
    {TableSignatures[i].state_id : i \in 1..Len(TableSignatures)}
      = BlockIds(fsm) \ Range(unreachable[1])

-----------------------------------------------------------------------------
(* The meaning of a normal form under the matcher                          *)

\* the values the variables of a tree are given
MeaningValues == {<<"0">>, <<"1">>, <<"2">>}

\* the trees that are normalised and matched: those of ExprPool and the
\* negation of `a op x`, x not a number, under each operator
MeaningPool ==
  ExprPool
    \cup {Not(Atomic(Condition(<<"a">>, operators[i], <<"x">>))) : i \in 1..Len(operators)}

RECURSIVE ExprVariables(_)
\* the variables of the atomic conditions of a tree
ExprVariables(e) ==
  CASE e.kind = "Atomic" -> {e.cond.variable}
    [] e.kind = "Not" -> ExprVariables(e.inner)
    [] OTHER -> ExprVariables(e.left) \cup ExprVariables(e.right)

MeaningInit ==
  /\ fsm = NewFunctionBlock
  /\ paths = None /\ table = None /\ prev_table = None
  /\ IdleGuard /\ matched = None
  /\ tokenized = None /\ atomic_cond = None /\ parser = None
  /\ normal_form = None /\ finder = None /\ unreachable = None
  /\ \E e \in MeaningPool :
       /\ bool_expr = Some(e)
       /\ runtime_vars \in [ExprVariables(e) -> MeaningValues]

\* the StateSignature whose PathSignatures are the conjunctions of a DNF
SignatureOfDnf(dnf) ==
  [state_id |-> "10",
   path_signatures |-> [i \in 1..Len(dnf) |-> PathSignature(dnf[i], i - 1)],
   paths_count |-> 1]

\* a call of StateSignature::matches_any on the conjunctions of the normal
\* form
MatchNormalForm ==
  /\ normal_form # None /\ matched = None
  /\ matched' = Some([state_id |-> "10",
                      result |-> matches_any(SignatureOfDnf(normal_form[1]),
                                             runtime_vars)])
  /\ UNCHANGED <<fsm, paths, table, prev_table, condition_str, parsed,
                 conjunction, formatted, runtime_vars>>
  /\ UNCHANGED stage_vars

MeaningNext == ToDnf \/ MatchNormalForm

\* one tree, normalised and matched against one assignment
SpecMeaning == MeaningInit /\ [][MeaningNext]_vars

RECURSIVE Holds(_, _)
\* the truth of a tree under an assignment: And, Or and Not as in boolean
\* algebra, an atomic condition as evaluate_condition evaluates it
Holds(e, rvars) ==
  CASE e.kind = "Atomic" -> evaluate_condition(e.cond, rvars[e.cond.variable])
    [] e.kind = "And" -> Holds(e.left, rvars) /\ Holds(e.right, rvars)
    [] e.kind = "Or" -> Holds(e.left, rvars) \/ Holds(e.right, rvars)
    [] e.kind = "Not" -> ~Holds(e.inner, rvars)

\* the string writes an integer
IsInteger(v) ==
  LET digits == IF v # <<>> /\ v[1] = "-" THEN Tail(v) ELSE v IN
  digits # <<>> /\ \A i \in 1..Len(digits) : digits[i] \in Range(Digits)

RECURSIVE OrderedValuesAreIntegers(_)
\* every value the tree compares by <, <=, > or >= writes an integer
OrderedValuesAreIntegers(e) ==
  CASE e.kind = "Atomic" -> e.cond.operator \in {OpEq, OpNe} \/ IsInteger(e.cond.value)
    [] e.kind = "Not" -> OrderedValuesAreIntegers(e.inner)
    [] OTHER -> OrderedValuesAreIntegers(e.left) /\ OrderedValuesAreIntegers(e.right)

\* C28 as stated: under an assignment that gives every variable of a tree
\* an integer, some conjunction of the tree's normal form matches iff the
\* tree is true; an atomic condition and its negation are never both true
\* or both false.
DnfPreservesMeaning ==
  matched # None =>
    /\ matched[1].result = Holds(bool_expr[1], runtime_vars)
    /\ (bool_expr[1].kind = "Not" /\ bool_expr[1].inner.kind = "Atomic") =>
         LET c == bool_expr[1].inner.cond IN
         evaluate_condition(negate_condition(c), runtime_vars[c.variable])
           # evaluate_condition(c, runtime_vars[c.variable])

\* C28 as amended: the same for a tree in which every value compared by <,
\* <=, > or >= writes an integer as well.
DnfPreservesMeaningOfNumbers ==
  (matched # None /\ OrderedValuesAreIntegers(bool_expr[1])) =>
    /\ matched[1].result = Holds(bool_expr[1], runtime_vars)
    /\ (bool_expr[1].kind = "Not" /\ bool_expr[1].inner.kind = "Atomic") =>
         LET c == bool_expr[1].inner.cond IN
         evaluate_condition(negate_condition(c), runtime_vars[c.variable])
           # evaluate_condition(c, runtime_vars[c.variable])

\* C28 witness: `NOT (A = 1 AND B < 2)` has been normalised and matched
\* against A = 1, B = 2, which only its second conjunction matches.
DnfPreservesMeaningOfNumbersWitness ==
  /\ matched # None /\ matched[1].result
  /\ bool_expr[1] = DeMorganExpr
  /\ runtime_vars[<<"A">>] = <<"1">> /\ runtime_vars[<<"B">>] = <<"2">>
  /\ Len(normal_form[1]) = 2

-----------------------------------------------------------------------------
(* The indexes of a block built by direct calls                            *)

\* the ids the calls name
CallIds == {"10", "20"}

\* a call of FunctionBlock::add_state with a new State, at any time
CallAddState(id) ==
  /\ Building
  /\ fsm' = add_state(fsm, NewState(id))
  /\ UNCHANGED <<paths, table, prev_table, condition_str, parsed,
                 conjunction, formatted, runtime_vars, matched>>
  /\ UNCHANGED stage_vars

BlockNext ==
  \/ \E id \in CallIds : CallAddState(id)
  \/ \E from \in CallIds, to \in CallIds :
       AddTransition(from, to, NoCheck, MaxTransitions)

\* add_state and add_transition called in any order
SpecBlock == Init /\ [][BlockNext]_vars

\* transitions_in and transitions_out of every state are empty exactly when
\* no transition of the list names the state, and every transition names
\* keys of `states`
IndexesAgree(f) ==
  /\ \A i \in 1..Len(f.states) :
       /\ f.states[i].transitions_in = <<>>
            <=> ~\E t \in 1..Len(f.transitions) :
                   f.transitions[t].to_state = f.states[i].id
       /\ f.states[i].transitions_out = <<>>
            <=> ~\E t \in 1..Len(f.transitions) :
                   f.transitions[t].from_state = f.states[i].id
  /\ \A t \in 1..Len(f.transitions) :
       /\ contains_key(f, f.transitions[t].from_state)
       /\ contains_key(f, f.transitions[t].to_state)

\* some transition of the block names the id
Named(f, id) ==
  \E t \in 1..Len(f.transitions) :
     f.transitions[t].from_state = id \/ f.transitions[t].to_state = id

\* the step is a call in the order of build_function_block: add_state of an
\* id that no transition names, or add_transition between two keys of
\* `states`
CallInOrder ==
  IF fsm'.transitions = fsm.transitions
  THEN \A i \in 1..Len(fsm.states) :
          fsm'.states[i] # fsm.states[i] => ~Named(fsm, fsm.states[i].id)
  ELSE /\ contains_key(fsm, fsm'.transitions[Len(fsm'.transitions)].from_state)
       /\ contains_key(fsm, fsm'.transitions[Len(fsm'.transitions)].to_state)

\* C29 as stated: after any sequence of add_state and add_transition
\* calls, in any order, the indexes agree with the transition list.
IndexesAgreeInAnyOrder == IndexesAgree(fsm)

\* C29 as amended: the indexes agree in the new block, and a call in the
\* order of build_function_block on a block whose indexes agree leaves a
\* block whose indexes agree.
IndexesAgreeInOrder ==
  [][(IndexesAgree(fsm) /\ CallInOrder) => IndexesAgree(fsm')]_vars

\* C29 witness: 10 and 20 were added and then 10 -> 20, 20 -> 10 and
\* 10 -> 10; the indexes of both states are filled and agree.
IndexesAgreeInOrderWitness ==
  /\ IndexesAgree(fsm)
  /\ StateKeys(fsm) = <<"10", "20">>
  /\ [t \in 1..Len(fsm.transitions) |->
        <<fsm.transitions[t].from_state, fsm.transitions[t].to_state>>]
       = <<<<"10", "20">>, <<"20", "10">>, <<"10", "10">>>>
  /\ Len(fsm.states[1].transitions_out) = 2
  /\ Len(fsm.states[1].transitions_in) = 2
  /\ Len(fsm.states[2].transitions_in) = 1

-----------------------------------------------------------------------------
(* What the merge across paths drops                                       *)

\* the guards of the blocks whose signatures are merged: "b = 2",
\* "a = 1 AND b = 2" and "a = (1 AND b = 2)"
MergeGuards ==
  {AtomGuard(CondB),
   AtomGuard(CondA) \o AndSeparator \o AtomGuard(CondB),
   <<"a", " ", "=", " ", "(", "1">> \o AndSeparator \o AtomGuard(CondB) \o <<")">>}

\* their transitions: 10 -> 20 and 20 -> 30 and, by repetition, parallel
\* transitions
MergeEdges == {<<"10", "20">>, <<"20", "30">>}

MergeNext ==
  \/ \E edge \in MergeEdges, g \in MergeGuards :
       ExtractTransition(edge[1], edge[2], g, MaxGuarded)
  \/ Generate(1)

\* blocks whose paths to a state carry these guards, signed once
SpecMerge == SigInit /\ [][MergeNext]_vars

\* no variable and no value of the PathSignatures holds a space
WithoutSpaces(signatures) ==
  \A i \in 1..Len(signatures) :
     \A k \in 1..Len(signatures[i].conditions) :
        /\ " " \notin Range(signatures[i].conditions[k].variable)
        /\ " " \notin Range(signatures[i].conditions[k].value)

\* of the PathSignatures built before the merge, one is dropped only if a
\* kept one has the same list of triples, two with different lists of
\* triples have different keys, and the kept one of a key has the smallest
\* path_id of the key
MergeLosesNothing(before, kept) ==
  /\ \A b \in 1..Len(before) :
       before[b] \notin Range(kept) =>
         \E k \in 1..Len(kept) : kept[k].conditions = before[b].conditions
  /\ \A b \in 1..Len(before), c \in 1..Len(before) :
       before[b].conditions # before[c].conditions =>
         format_conditions(before[b].conditions) # format_conditions(before[c].conditions)
  /\ \A k \in 1..Len(kept), b \in 1..Len(before) :
       format_conditions(before[b].conditions) = format_conditions(kept[k].conditions)
         => kept[k].path_id <= before[b].path_id

====
